---- MODULE Spec2Model ----
(***************************************************************************)
(* A model of backend/server.js of the volume dashboard: the retry         *)
(* wrapper, the single-slot freshness caches, the four source fetchers,    *)
(* the snapshot store, the refresh passes (startup and hourly) and the     *)
(* query handlers.                                                         *)
(*                                                                         *)
(* The server runs on one event loop.  A coroutine (a refresh pass or a    *)
(* query handler) is suspended only while it awaits a network response or  *)
(* a timer; everything between two such points runs without interleaving.  *)
(* `running` names the coroutine that holds the event loop, if any.        *)
(*                                                                         *)
(* Text is modelled by structure: a pair symbol "BTCUSDT" is the record    *)
(* [base |-> "BTC", quote |-> "USDT"], an Upbit market "KRW-BTC" is        *)
(* [quote |-> "KRW", base |-> "BTC"], and a numeric string is the sequence *)
(* of its decimal digits.  Numbers are exact fractions [n, d].             *)
(***************************************************************************)
EXTENDS Integers, Sequences, FiniteSets, TLC

\* JavaScript null / undefined, where a record (an object) may stand instead.
Null == [null |-> TRUE]

(***************************************************************************)
(* Program constants.                                                      *)
(***************************************************************************)
MAX_SNAPSHOTS == 6
TopN == 100
MaxRetries == 3
BackoffBaseMs == 1000
TickerCacheMs == 60000
AuxCacheMs == 30 * 60 * 1000
RequestTimeoutMs == 15000
SpacingMs == 500
HourMs == 60 * 60 * 1000
MinuteMs == 60000
FallbackKrwPerUsd == 1450
JstOffsetMs == 9 * 60 * 60 * 1000

(***************************************************************************)
(* Bounds of the model.                                                    *)
(***************************************************************************)
\* Length of the long upstream ticker list (one more than the top-100 cut).
LongLen == 101
\* Upstream faults (error responses and timeouts) in one run of the system;
\* the instrumented call of fetchWithRetry may fail every time.
MaxFaults == 1
\* Query-endpoint requests accepted in one run of the system.
MaxQueries == 1
\* The clock stops advancing here (a little over one hour after start).
MaxTime == 3700000
\* Free advance of the clock when no timer is due earlier.
TickMs == 1200000
\* Calls of takeSnapshot in a run of the snapshot store on its own.
MaxStoreCalls == 7
\* The clock of the scheduler on its own stops advancing here (a little over
\* two hours after start, so that the timer fires twice).
MaxHoursTime == 7300000

(***************************************************************************)
(* Numbers.  parseFloat of a decimal string, and exact arithmetic on       *)
(* non-negative fractions (the Upbit conversion divides by a price).       *)
(***************************************************************************)
Num(n) == [n |-> n, d |-> 1]
Mul(a, b) == [n |-> a.n * b.n, d |-> a.d * b.d]
Inv(a) == [n |-> a.d, d |-> a.n]
NumLt(a, b) == a.n * b.d < b.n * a.d
NumEq(a, b) == a.n * b.d = b.n * a.d

RECURSIVE DigitsValue(_)
DigitsValue(s) ==
    IF s = <<>> THEN 0
    ELSE 10 * DigitsValue(SubSeq(s, 1, Len(s) - 1)) + s[Len(s)]

\* parseFloat(s) for s a decimal string, given as the sequence of its digits.
parseFloat(s) == Num(DigitsValue(s))

\* JavaScript truthiness.  An absent text field and "" are both the empty
\* sequence; an absent numeric field and 0 are both 0; the string "0" is truthy.
TruthyStr(s) == s # <<>>
TruthyNum(n) == n # 0

RECURSIVE DigitsOf(_)
DigitsOf(n) == IF n < 10 THEN <<n>> ELSE Append(DigitsOf(n \div 10), n % 10)

(***************************************************************************)
(* Symbols.                                                                *)
(***************************************************************************)
Sym(b, q) == [base |-> b, quote |-> q]
endsWithUSDT(symbol) == symbol.quote = "USDT"
startsWithKRW(market) == market.quote = "KRW"
Market(q, b) == [quote |-> q, base |-> b]
KRW_USDT == Market("KRW", "USDT")

\* s.toUpperCase() on the token names of the model.
toUpperCase(s) ==
    CASE s = "btc" -> "BTC"
      [] s = "sol" -> "SOL"
      [] OTHER -> s

(***************************************************************************)
(* Array helpers (filter is SelectSeq): the stable sort with comparator     *)
(* (a, b) => b.quoteVolume - a.quoteVolume, and slice(0, n).               *)
(***************************************************************************)
\* A faulty variant: the comparator the other way round (ascending).
SortByVolumeAsc(seq) ==
    LET n == Len(seq)
        Before(j, i) == \/ NumLt(seq[j].quoteVolume, seq[i].quoteVolume)
                        \/ NumEq(seq[j].quoteVolume, seq[i].quoteVolume) /\ j < i
        pos == [i \in 1..n |-> 1 + Cardinality({j \in 1..n : Before(j, i)})]
    IN  [p \in 1..n |-> seq[CHOOSE i \in 1..n : pos[i] = p]]
\* seq.sort((a, b) => b.quoteVolume - a.quoteVolume): Array.prototype.sort is
\* stable, so a record's place is the number of records that rank before it.
SortByVolumeDesc(seq) ==
    LET n == Len(seq)
        Before(j, i) == \/ NumLt(seq[i].quoteVolume, seq[j].quoteVolume)
                        \/ NumEq(seq[i].quoteVolume, seq[j].quoteVolume) /\ j < i
        pos == [i \in 1..n |-> 1 + Cardinality({j \in 1..n : Before(j, i)})]
    IN  [p \in 1..n |-> seq[CHOOSE i \in 1..n : pos[i] = p]]

Slice(seq, n) == SubSeq(seq, 1, IF Len(seq) < n THEN Len(seq) ELSE n)

(***************************************************************************)
(* DataCache (one slot, a stored time, a validity window).                 *)
(***************************************************************************)
\* The value `true` the auxiliary caches store.
True == [value |-> TRUE]

DataCache(duration) == [data |-> Null, lastFetchTime |-> 0, duration |-> duration]

isValid(c, t) == c.data # Null /\ t - c.lastFetchTime < c.duration

set(c, data, t) == [c EXCEPT !.data = data, !.lastFetchTime = t]

get(c) == c.data

(***************************************************************************)
(* The snapshot store.                                                     *)
(***************************************************************************)
\* getJSTTimeLabel(): "HH:MM" of the clock shifted to UTC+9, as <<HH, MM>>.
getJSTTimeLabel(t) ==
    LET jst == t + JstOffsetMs
    IN  <<(jst \div HourMs) % 24, (jst \div MinuteMs) % 60>>

\* A faulty variant: rank: index, without the + 1.
RankingsZeroBased(list) ==
    [sym \in {list[i].symbol : i \in 1..Len(list)} |->
        LET last == CHOOSE i \in 1..Len(list) :
                        /\ list[i].symbol = sym
                        /\ \A j \in 1..Len(list) : list[j].symbol = sym => j <= i
        IN  [rank |-> last - 1, volume |-> list[last].quoteVolume]]
\* rankings built by forEach: a later record with the same symbol overwrites.
Rankings(list) ==
    [sym \in {list[i].symbol : i \in 1..Len(list)} |->
        LET last == CHOOSE i \in 1..Len(list) :
                        /\ list[i].symbol = sym
                        /\ \A j \in 1..Len(list) : list[j].symbol = sym => j <= i
        IN  [rank |-> last, volume |-> list[last].quoteVolume]]

\* A faulty variant: store.pop(), dropping the newest.
RECURSIVE ShiftDownNewest(_)
ShiftDownNewest(store) ==
    IF Len(store) > MAX_SNAPSHOTS
    THEN ShiftDownNewest(SubSeq(store, 1, Len(store) - 1))
    ELSE store
\* while (store.length > MAX_SNAPSHOTS) store.shift()
RECURSIVE ShiftDown(_)
ShiftDown(store) ==
    IF Len(store) > MAX_SNAPSHOTS THEN ShiftDown(Tail(store)) ELSE store

getSnapshots(store, exchangeId) ==
    IF exchangeId \in DOMAIN store THEN store[exchangeId] ELSE <<>>

\* A faulty variant: if (!data) return, so an empty record list is recorded.
takeSnapshotOfEmptyList(store, exchangeId, data, t) ==
    IF data = Null THEN store
    ELSE LET snap == [time |-> getJSTTimeLabel(t), timestamp |-> t,
                      rankings |-> Rankings(data.data)]
             pushed == Append(getSnapshots(store, exchangeId), snap)
         IN  [id \in DOMAIN store \cup {exchangeId} |->
                 IF id = exchangeId THEN ShiftDown(pushed) ELSE store[id]]

\* A faulty variant: the snapshot is pushed to every history there is.
takeSnapshotEveryHistory(store, exchangeId, data, t) ==
    IF data = Null \/ Len(data.data) = 0 THEN store
    ELSE LET snap == [time |-> getJSTTimeLabel(t), timestamp |-> t,
                      rankings |-> Rankings(data.data)]
         IN  [id \in DOMAIN store \cup {exchangeId} |->
                 ShiftDown(Append(getSnapshots(store, id), snap))]

\* takeSnapshot(exchangeId, data) at clock t: the snapshot store afterwards.
takeSnapshot(store, exchangeId, data, t) ==
    IF data = Null \/ Len(data.data) = 0 THEN store
    ELSE LET snap == [time |-> getJSTTimeLabel(t), timestamp |-> t,
                      rankings |-> Rankings(data.data)]
             pushed == Append(getSnapshots(store, exchangeId), snap)
         IN  [id \in DOMAIN store \cup {exchangeId} |->
                 IF id = exchangeId THEN ShiftDown(pushed) ELSE store[id]]

(***************************************************************************)
(* What the exchanges can answer.  Every list has one entry per symbol and *)
(* decimal numeric fields, as the exchange APIs return them.  Each         *)
(* endpoint has a short list (unsorted, with a tie and with entries the    *)
(* adapter must filter out); the ticker endpoints also have variants and a *)
(* long list of LongLen entries, which the adapters are applied to on      *)
(* their own (SpecRank).                                                   *)
(***************************************************************************)
LongBase(i) == "T" \o ToString(i)
LongVolume(i) == (i * 37) % 50

\* GET /fapi/v1/exchangeInfo: data.symbols
ExchangeInfoShort ==
    << [symbol |-> Sym("BTC", "USDT"), status |-> "TRADING"],
       [symbol |-> Sym("ETH", "USDT"), status |-> "BREAK"],
       [symbol |-> Sym("ETH", "BTC"), status |-> "TRADING"],
       [symbol |-> Sym("SOL", "USDT"), status |-> "TRADING"] >>

\* GET /fapi/v1/ticker/24hr: data
BinanceShort ==
    << [symbol |-> Sym("BTC", "USDT"), lastPrice |-> <<9, 0>>, quoteVolume |-> <<5>>],
       [symbol |-> Sym("ETH", "USDT"), lastPrice |-> <<3>>, quoteVolume |-> <<1, 2>>],
       [symbol |-> Sym("ETH", "BTC"), lastPrice |-> <<1>>, quoteVolume |-> <<9, 9>>],
       [symbol |-> Sym("SOL", "USDT"), lastPrice |-> <<2>>, quoteVolume |-> <<1, 2>>] >>

BinanceLong ==
    [i \in 1..LongLen |->
        [symbol |-> Sym(LongBase(i), "USDT"), lastPrice |-> <<1>>,
         quoteVolume |-> DigitsOf(LongVolume(i))]]

\* GET /api/v2/spot/market/tickers: data.data
BitgetShort ==
    << [symbol |-> Sym("BTC", "USDT"), lastPr |-> <<9, 0>>, usdtVolume |-> <<7>>, quoteVolume |-> <<1>>],
       [symbol |-> Sym("ETH", "USDT"), lastPr |-> <<>>, usdtVolume |-> <<>>, quoteVolume |-> <<4, 0>>],
       [symbol |-> Sym("BTC", "EUR"), lastPr |-> <<8>>, usdtVolume |-> <<9, 9>>, quoteVolume |-> <<9, 9>>],
       [symbol |-> Sym("SOL", "USDT"), lastPr |-> <<2>>, usdtVolume |-> <<>>, quoteVolume |-> <<>>],
       [symbol |-> Sym("XRP", "USDT"), lastPr |-> <<1>>, usdtVolume |-> <<0>>, quoteVolume |-> <<5>>] >>

BitgetLong ==
    [i \in 1..LongLen |->
        [symbol |-> Sym(LongBase(i), "USDT"), lastPr |-> <<1>>,
         usdtVolume |-> DigitsOf(LongVolume(i)), quoteVolume |-> <<>>]]

\* GET /v1/market/all: data
UpbitMarketsShort ==
    << [market |-> Market("KRW", "BTC")], [market |-> Market("BTC", "ETH")],
       [market |-> KRW_USDT], [market |-> Market("KRW", "SOL")] >>

\* GET /v1/ticker?markets=...: data (numeric JSON fields)
UpbitShort ==
    << [market |-> Market("KRW", "BTC"), trade_price |-> 9000, acc_trade_price_24h |-> 3000],
       [market |-> KRW_USDT, trade_price |-> 1500, acc_trade_price_24h |-> 99000],
       [market |-> Market("KRW", "SOL"), trade_price |-> 30, acc_trade_price_24h |-> 6000] >>

UpbitNoUsdt ==
    << [market |-> Market("KRW", "BTC"), trade_price |-> 9000, acc_trade_price_24h |-> 3000],
       [market |-> Market("KRW", "SOL"), trade_price |-> 0, acc_trade_price_24h |-> 0],
       [market |-> Market("KRW", "XRP"), trade_price |-> 700, acc_trade_price_24h |-> 8000] >>

\* A batch whose KRW-USDT ticker has no price yet.
UpbitZeroUsdt ==
    << [market |-> Market("KRW", "BTC"), trade_price |-> 9000, acc_trade_price_24h |-> 3000],
       [market |-> Market("KRW", "ETH"), trade_price |-> 400, acc_trade_price_24h |-> 5000],
       [market |-> KRW_USDT, trade_price |-> 0, acc_trade_price_24h |-> 0] >>

UpbitLong ==
    [i \in 1..LongLen |->
        [market |-> Market("KRW", LongBase(i)), trade_price |-> 10,
         acc_trade_price_24h |-> LongVolume(i)]]

\* GET .../alpha/all/token/list: data.data (absent data is the empty list)
AlphaShort == << [symbol |-> "btc"], [symbol |-> "SOL"], [symbol |-> "DOGE"] >>
\* One token symbol listed twice (on two chains, in two spellings).
AlphaRepeated == << [symbol |-> "sol"], [symbol |-> "SOL"], [symbol |-> "BTC"], [symbol |-> "ETH"] >>
AlphaLong == [i \in 1..LongLen |-> [symbol |-> LongBase(i)]]

\* The replies of the running server's upstreams.
Replies(url) ==
    CASE url = "exchangeInfo" -> {ExchangeInfoShort}
      [] url = "binanceTicker" -> {BinanceShort}
      [] url = "bitgetTicker" -> {BitgetShort}
      [] url = "upbitMarkets" -> {UpbitMarketsShort}
      [] url = "upbitTicker" -> {UpbitShort}
      [] url = "alphaTokens" -> {AlphaShort, << >>}

\* HTTP statuses of failed requests; NoStatus is an error without a response
\* (a timeout or a network error: error.response?.status is undefined).
NoStatus == 0
ErrorStatuses == {NoStatus, 400, 404, 418, 429, 499, 500, 503}

(***************************************************************************)
(* The adapters' filtering, normalisation, ranking and truncation.         *)
(***************************************************************************)
\* activeSymbolsSet from an exchangeInfo reply.
ActiveSymbols(symbols) ==
    {symbols[i].symbol : i \in {j \in 1..Len(symbols) :
        symbols[j].status = "TRADING" /\ endsWithUSDT(symbols[j].symbol)}}

\* tradingSymbols is Null or [set |-> ...].
BinanceKeep(t, tradingSymbols) ==
    IF ~endsWithUSDT(t.symbol) THEN FALSE
    ELSE IF tradingSymbols # Null THEN t.symbol \in tradingSymbols.set
    ELSE TRUE

BinanceRecord(t) ==
    [symbol |-> t.symbol, lastPrice |-> parseFloat(t.lastPrice),
     quoteVolume |-> parseFloat(t.quoteVolume)]

BinanceTop100(tickers, tradingSymbols) ==
    LET Keep(t) == BinanceKeep(t, tradingSymbols)
        kept == SelectSeq(tickers, Keep)
        mapped == [i \in 1..Len(kept) |-> BinanceRecord(kept[i])]
    IN  Slice(SortByVolumeDesc(mapped), TopN)

BitgetRecord(t) ==
    [symbol |-> t.symbol,
     lastPrice |-> IF TruthyStr(t.lastPr) THEN parseFloat(t.lastPr) ELSE Num(0),
     quoteVolume |-> IF TruthyStr(t.usdtVolume) THEN parseFloat(t.usdtVolume)
                     ELSE IF TruthyStr(t.quoteVolume) THEN parseFloat(t.quoteVolume)
                     ELSE Num(0)]

BitgetKeep(t) == endsWithUSDT(t.symbol)

BitgetTop100(tickers) ==
    LET kept == SelectSeq(tickers, BitgetKeep)
        mapped == [i \in 1..Len(kept) |-> BitgetRecord(kept[i])]
    IN  Slice(SortByVolumeDesc(mapped), TopN)

\* upbitMarketsList from a market/all reply.
KrwMarkets(markets) == SelectSeq(markets, LAMBDA m : startsWithKRW(m.market))

\* A faulty variant: the fixed rate, whatever the batch holds.
KrwToUsdFixed(tickers) == Inv(Num(FallbackKrwPerUsd))
\* krwToUsd: 1 / trade_price of the KRW-USDT ticker of the batch, else 1 / 1450.
KrwToUsd(tickers) ==
    LET found == {i \in 1..Len(tickers) : tickers[i].market = KRW_USDT}
        first == CHOOSE i \in found : \A j \in found : i <= j
    IN  IF found # {} /\ TruthyNum(tickers[first].trade_price)
        THEN Inv(Num(tickers[first].trade_price))
        ELSE Inv(Num(FallbackKrwPerUsd))

\* A faulty variant: the part before the dash instead of the part after it.
UpbitBaseKeepsQuote(market) == market.quote
\* t.market.replace('KRW-', '')
UpbitBase(market) ==
    IF market.quote = "KRW" THEN market.base ELSE market.quote \o "-" \o market.base

UpbitRecord(t, krwToUsd) ==
    [symbol |-> Sym(UpbitBase(t.market), "USDT"),
     displayName |-> UpbitBase(t.market),
     lastPrice |-> Mul(Num(t.trade_price), krwToUsd),
     quoteVolume |-> Mul(Num(t.acc_trade_price_24h), krwToUsd)]

UpbitTop100(tickers) ==
    LET rate == KrwToUsd(tickers)
        kept == SelectSeq(tickers, LAMBDA t : t.market # KRW_USDT)
        mapped == [i \in 1..Len(kept) |-> UpbitRecord(kept[i], rate)]
    IN  Slice(SortByVolumeDesc(mapped), TopN)

\* alphaSymbolSet from the token list.
AlphaSymbolSet(tokens) ==
    {Sym(toUpperCase(tokens[i].symbol), "USDT") : i \in 1..Len(tokens)}

AlphaTop100(tickers, tokens) ==
    LET alphaSymbolSet == AlphaSymbolSet(tokens)
        kept == SelectSeq(tickers, LAMBDA t : t.symbol \in alphaSymbolSet)
        mapped == [i \in 1..Len(kept) |-> BinanceRecord(kept[i])]
    IN  Slice(SortByVolumeDesc(mapped), TopN)

(***************************************************************************)
(* State.                                                                  *)
(***************************************************************************)
VARIABLES
    now,            \* Date.now(): the wall clock, in ms
    cache,          \* the seven DataCache objects, by the name of their variable
    auxVal,         \* activeSymbolsSet, upbitMarketsList, alphaTokenList
    snapshotStore,  \* exchange id -> its snapshots, oldest first
    task,           \* the coroutines: where each is suspended, and its locals
    running,        \* the coroutine that holds the event loop, or NoTask
    timer,          \* the hourly timer of scheduleHourlySnapshots
    faults,         \* upstream faults so far
    queries,        \* query requests accepted so far
    log,            \* the requests and waits of the instrumented fetchWithRetry call
    ui,             \* the dashboard in a browser: its React state and its fetches
    startedAt       \* the clock at process start (process.uptime() counts from it)

vars == <<now, cache, auxVal, snapshotStore, task, running, timer, faults, queries, log, ui,
          startedAt>>

\* No browser has the dashboard open.
NoUi == [open |-> FALSE]

EXCHANGE_FETCHERS == <<"binance-futures", "bitget-spot", "upbit-spot", "binance-alpha">>
ExchangeIds == {EXCHANGE_FETCHERS[i] : i \in 1..Len(EXCHANGE_FETCHERS)}

TickerCacheOf(id) ==
    CASE id = "binance-futures" -> "binanceFuturesCache"
      [] id = "bitget-spot" -> "bitgetCache"
      [] id = "upbit-spot" -> "upbitCache"
      [] id = "binance-alpha" -> "alphaCache"

TickerUrlOf(id) ==
    CASE id = "binance-futures" -> "binanceTicker"
      [] id = "bitget-spot" -> "bitgetTicker"
      [] id = "upbit-spot" -> "upbitTicker"
      [] id = "binance-alpha" -> "binanceTicker"

AuxUrlOf(id) ==
    CASE id = "binance-futures" -> "exchangeInfo"
      [] id = "upbit-spot" -> "upbitMarkets"
      [] id = "binance-alpha" -> "alphaTokens"

AuxCacheOf(id) ==
    CASE id = "binance-futures" -> "binanceExchangeInfoCache"
      [] id = "upbit-spot" -> "upbitMarketsCache"
      [] id = "binance-alpha" -> "alphaListCache"

AuxVarOf(id) ==
    CASE id = "binance-futures" -> "activeSymbolsSet"
      [] id = "upbit-spot" -> "upbitMarketsList"
      [] id = "binance-alpha" -> "alphaTokenList"

TickerCaches == {TickerCacheOf(id) : id \in ExchangeIds}
AuxCaches == {"binanceExchangeInfoCache", "upbitMarketsCache", "alphaListCache"}
AuxVars == {"activeSymbolsSet", "upbitMarketsList", "alphaTokenList"}

\* The coroutines: the startup pass (the app.listen callback), the passes the
\* hourly timer starts, the query handlers, and one instrumented direct call of
\* fetchWithRetry.
StartupTask == "main"
HourlyTasks == {"hourly1", "hourly2"}
PassTasks == {StartupTask} \cup HourlyTasks
QueryTasks == {"q1"}
Probe == "probe"
Tasks == PassTasks \cup QueryTasks \cup {Probe}
NoTask == "none"

\* `at`, `seen` and `requests` instrument a fetcher call: when it was called,
\* the ticker cache as it was then, and the upstream requests it has issued;
\* `passed` instruments a pass: the sources it is through with, and whether
\* the fetcher gave it a result with records.
IdleTask == [pc |-> "idle", idx |-> 0, call |-> "", attempt |-> 0, wake |-> 0,
             local |-> Null, ret |-> Null, at |-> 0, seen |-> Null, requests |-> 0,
             passed |-> << >>]

SourceOf(tk) == EXCHANGE_FETCHERS[tk.idx]
UrlOf(t) ==
    IF t = Probe THEN "bitgetTicker"
    ELSE IF task[t].call = "aux" THEN AuxUrlOf(SourceOf(task[t]))
    ELSE TickerUrlOf(SourceOf(task[t]))

IsError(x) == "error" \in DOMAIN x

(***************************************************************************)
(* fetchWithRetry.                                                         *)
(***************************************************************************)
\* The error axios raises for request number `attempt` of a call.
AxiosError(status, attempt) == [error |-> "AxiosError", status |-> status, attempt |-> attempt]

\* A faulty variant: a 404 is retried.
IsTerminalRetries404(status) ==
    TruthyNum(status) /\ status >= 400 /\ status < 500 /\ status # 418 /\ status # 429
        /\ status # 404
\* status && status >= 400 && status < 500 && status !== 418 && status !== 429
IsTerminal(status) ==
    TruthyNum(status) /\ status >= 400 /\ status < 500 /\ status # 418 /\ status # 429

\* A faulty variant: the exponent counted from the first retry (1000, 2000).
BackoffDelayFromOne(attempt) == (2 ^ (attempt - 1)) * BackoffBaseMs
\* Math.pow(2, attempt) * 1000
BackoffDelay(attempt) == (2 ^ attempt) * BackoffBaseMs

\* A faulty variant: throws a new Error in place of the request's error.
OnFailureWraps(attempt, err) ==
    IF IsTerminal(err.status) \/ attempt = MaxRetries - 1
    THEN [kind |-> "throw", value |-> [error |-> "Error", status |-> NoStatus, attempt |-> attempt]]
    ELSE [kind |-> "retry"]
\* What the catch block does with the error of request `attempt`.
OnFailure(attempt, err) ==
    IF IsTerminal(err.status) THEN [kind |-> "throw", value |-> err]
    ELSE IF attempt = MaxRetries - 1 THEN [kind |-> "throw", value |-> err]
    ELSE [kind |-> "retry"]

\* A faulty variant: the response of the first request is not returned; the
\* loop goes on to another request.
fetchWithRetryStepGoesOn(attempt, outcome) ==
    IF outcome.ok /\ attempt > 0 THEN [kind |-> "return", value |-> outcome.data]
    ELSE IF outcome.ok THEN [kind |-> "retry"]
    ELSE OnFailure(attempt, AxiosError(outcome.status, attempt))

\* One settled request of fetchWithRetry: return the response, throw, or go on
\* to the next attempt.
fetchWithRetryStep(attempt, outcome) ==
    IF outcome.ok THEN [kind |-> "return", value |-> outcome.data]
    ELSE OnFailure(attempt, AxiosError(outcome.status, attempt))

\* await axiosInstance.get(url): the request is in flight until it is answered
\* or the axios timeout ends it.
Requesting(tk, call, attempt) ==
    [tk EXCEPT !.pc = "request", !.call = call, !.attempt = attempt,
               !.wake = now + RequestTimeoutMs, !.requests = @ + 1]

Outcomes(url) ==
    {[ok |-> TRUE, data |-> d, status |-> 200] : d \in Replies(url)}
        \cup {[ok |-> FALSE, data |-> <<>>, status |-> st] : st \in ErrorStatuses}

(***************************************************************************)
(* The fetchers.  A fetcher is run by a pass or a query handler; `idx` is  *)
(* its place in EXCHANGE_FETCHERS, `local` the auxiliary value it holds    *)
(* (tradingSymbols, markets, alphaTokens), `ret` what it returned or threw.*)
(***************************************************************************)
\* A faulty variant: the catch block rethrows without looking at the cache.
CaughtAlwaysThrows(tk, id, err) ==
    [tk EXCEPT !.pc = "ret", !.call = "", !.attempt = 0, !.wake = 0, !.local = Null,
               !.ret = err]
\* The catch block of a fetcher: the cached result if there is one, else rethrow.
Caught(tk, id, err) ==
    [tk EXCEPT !.pc = "ret", !.call = "", !.attempt = 0, !.wake = 0, !.local = Null,
               !.ret = IF get(cache[TickerCacheOf(id)]) # Null
                       THEN get(cache[TickerCacheOf(id)])
                       ELSE err]

\* await new Promise(resolve => setTimeout(resolve, 500))
Spacing(tk, value) ==
    [tk EXCEPT !.pc = "delay", !.call = "", !.attempt = 0, !.local = value,
               !.wake = now + SpacingMs]

\* The fetcher after its auxiliary value is known.
AfterAux(tk, id, value) ==
    CASE id = "binance-futures" -> Spacing(tk, value)
      [] id = "upbit-spot" ->
            IF Len(value.list) = 0
            THEN Caught(tk, id, [error |-> "Error", status |-> NoStatus, attempt |-> 0])
            ELSE Requesting([tk EXCEPT !.local = value], "ticker", 0)
      [] id = "binance-alpha" ->
            IF Len(value.list) = 0
            THEN Caught(tk, id, [error |-> "Error", status |-> NoStatus, attempt |-> 0])
            ELSE Spacing(tk, value)

\* The auxiliary value parsed from a reply.
AuxParsed(id, data) ==
    CASE id = "binance-futures" -> [set |-> ActiveSymbols(data)]
      [] id = "upbit-spot" -> [list |-> KrwMarkets(data)]
      [] id = "binance-alpha" -> [list |-> data]

\* The catch block of the auxiliary fetchers: the last value; Upbit and Alpha
\* substitute the empty list for none.
AuxFallback(id) ==
    IF id = "binance-futures" \/ auxVal[AuxVarOf(id)] # Null
    THEN auxVal[AuxVarOf(id)]
    ELSE [list |-> <<>>]

\* Whether the auxiliary fetcher answers from memory without a request.
AuxCached(id) ==
    IF id = "binance-futures"
    THEN isValid(cache[AuxCacheOf(id)], now)
    ELSE isValid(cache[AuxCacheOf(id)], now) /\ auxVal[AuxVarOf(id)] # Null

\* The ranked result of a ticker reply.
Top100(id, tickers, local) ==
    CASE id = "binance-futures" -> BinanceTop100(tickers, local)
      [] id = "bitget-spot" -> BitgetTop100(tickers)
      [] id = "upbit-spot" -> UpbitTop100(tickers)
      [] id = "binance-alpha" -> AlphaTop100(tickers, local.list)

\* A faulty variant: a fetcher's caller is resumed in a later turn of the
\* event loop, not right after the fetcher returned.
ResumeLaterAfterReturn(t, tk) ==
    /\ task' = [task EXCEPT ![t] = tk]
    /\ running' = IF tk.pc \in {"call", "schedule", "sent"} THEN t ELSE NoTask
Resume(t, tk) ==
    /\ task' = [task EXCEPT ![t] = tk]
    /\ running' = IF tk.pc \in {"call", "ret", "schedule", "sent"} THEN t ELSE NoTask

Called(tk) ==
    [tk EXCEPT !.at = now, !.seen = cache[TickerCacheOf(SourceOf(tk))], !.requests = 0]

\* A pass or a query handler calls its fetcher: const data = await fetcher().
CallFetcher(t) ==
    /\ running = t
    /\ task[t].pc = "call"
    /\ LET id == SourceOf(task[t])
           tk == Called(task[t])
       IN  IF isValid(cache[TickerCacheOf(id)], now)
           THEN Resume(t, [tk EXCEPT !.pc = "ret", !.ret = get(cache[TickerCacheOf(id)])])
           ELSE IF id = "bitget-spot"
           THEN Resume(t, Requesting(tk, "ticker", 0))
           ELSE IF AuxCached(id)
           THEN Resume(t, AfterAux(tk, id, auxVal[AuxVarOf(id)]))
           ELSE Resume(t, Requesting(tk, "aux", 0))
    /\ UNCHANGED <<now, cache, auxVal, snapshotStore, timer, faults, queries, log, ui, startedAt>>

\* fetchWithRetry of the auxiliary list returned or threw.
AuxSettled(t, r) ==
    LET id == SourceOf(task[t])
    IN  IF r.kind = "return"
        THEN /\ auxVal' = [auxVal EXCEPT ![AuxVarOf(id)] = AuxParsed(id, r.value)]
             /\ cache' = [cache EXCEPT ![AuxCacheOf(id)] = set(@, True, now)]
             /\ Resume(t, AfterAux(task[t], id, AuxParsed(id, r.value)))
        ELSE /\ UNCHANGED <<auxVal, cache>>
             /\ Resume(t, AfterAux(task[t], id, AuxFallback(id)))

\* fetchWithRetry of the tickers returned or threw.
TickerSettled(t, r) ==
    LET id == SourceOf(task[t])
        result == [data |-> Top100(id, r.value, task[t].local), timestamp |-> now]
    IN  IF r.kind = "return"
        THEN /\ cache' = [cache EXCEPT ![TickerCacheOf(id)] = set(@, result, now)]
             /\ Resume(t, [task[t] EXCEPT !.pc = "ret", !.call = "", !.attempt = 0,
                                          !.wake = 0, !.local = Null, !.ret = result])
             /\ UNCHANGED auxVal
        ELSE /\ UNCHANGED <<auxVal, cache>>
             /\ Resume(t, Caught(task[t], id, r.value))

\* The instrumented call of fetchWithRetry returned or threw.
ProbeSettled(t, r) ==
    /\ Resume(t, [task[t] EXCEPT !.pc = "done", !.wake = 0, !.ret = r])
    /\ UNCHANGED <<auxVal, cache, ui, startedAt>>

Logged(t, entry) == IF t = Probe THEN Append(log, entry) ELSE log

\* The instrumented call: fetchWithRetry(bitgetApi, url) enters its loop and
\* sends request 0 at once (`if (attempt > 0)` skips the wait).
ProbeCall ==
    /\ running = Probe
    /\ task[Probe].pc = "call"
    /\ Resume(Probe, Requesting(task[Probe], "ticker", 0))
    /\ log' = log \o <<[ev |-> "call", at |-> now, attempt |-> 0, status |-> NoStatus, wait |-> 0],
                       [ev |-> "request", at |-> now, attempt |-> 0, status |-> NoStatus, wait |-> 0]>>
    /\ UNCHANGED <<now, cache, auxVal, snapshotStore, timer, faults, queries, ui, startedAt>>

\* A request in flight is answered or fails.
Response(t) ==
    /\ running = NoTask
    /\ task[t].pc = "request"
    /\ \E o \in Outcomes(UrlOf(t)) :
         /\ ~o.ok => (t = Probe \/ faults < MaxFaults)
         /\ faults' = IF o.ok \/ t = Probe THEN faults ELSE faults + 1
         /\ LET r == fetchWithRetryStep(task[t].attempt, o)
            IN  /\ IF r.kind = "retry"
                   THEN /\ Resume(t, [task[t] EXCEPT !.pc = "backoff", !.attempt = @ + 1,
                                        !.wake = now + BackoffDelay(task[t].attempt + 1)])
                        /\ UNCHANGED <<auxVal, cache>>
                   ELSE IF t = Probe THEN ProbeSettled(t, r)
                   ELSE IF task[t].call = "aux" THEN AuxSettled(t, r)
                   ELSE TickerSettled(t, r)
                /\ log' = IF o.ok
                          THEN Logged(t, [ev |-> "ok", at |-> now, attempt |-> task[t].attempt,
                                          status |-> o.status, wait |-> 0])
                          ELSE IF r.kind = "retry"
                          THEN Logged(t, [ev |-> "wait", at |-> now, attempt |-> task[t].attempt,
                                          status |-> o.status,
                                          wait |-> BackoffDelay(task[t].attempt + 1)])
                          ELSE Logged(t, [ev |-> "throw", at |-> now, attempt |-> task[t].attempt,
                                          status |-> o.status, wait |-> 0])
    /\ UNCHANGED <<now, snapshotStore, timer, queries, ui, startedAt>>

\* The retry wait is over: the next request goes out.
BackoffFire(t) ==
    /\ running = NoTask
    /\ task[t].pc = "backoff"
    /\ now >= task[t].wake
    /\ Resume(t, Requesting(task[t], task[t].call, task[t].attempt))
    /\ log' = Logged(t, [ev |-> "request", at |-> now, attempt |-> task[t].attempt,
                               status |-> NoStatus, wait |-> 0])
    /\ UNCHANGED <<now, cache, auxVal, snapshotStore, timer, faults, queries, ui, startedAt>>

\* The 500 ms spacing is over: the ticker fetch starts.
SpacingFire(t) ==
    /\ running = NoTask
    /\ task[t].pc = "delay"
    /\ now >= task[t].wake
    /\ Resume(t, Requesting(task[t], "ticker", 0))
    /\ UNCHANGED <<now, cache, auxVal, snapshotStore, timer, faults, queries, log, ui, startedAt>>

(***************************************************************************)
(* The refresh passes and the hourly timer.                                *)
(***************************************************************************)
\* A faulty variant: the time left to the end of the hour, which is nothing
\* on the hour.
msUntilNextHourOfThisHour(t) ==
    ((59 - ((t \div MinuteMs) % 60)) * 60000 + (59 - ((t \div 1000) % 60)) * 1000
        + (1000 - (t % 1000))) % HourMs
\* (60 - getMinutes()) * 60000 - getSeconds() * 1000 - getMilliseconds()
msUntilNextHour(t) ==
    (60 - ((t \div MinuteMs) % 60)) * 60000 - ((t \div 1000) % 60) * 1000 - (t % 1000)

\* `first` keeps the time the timeout was set for.
NoTimer == [armed |-> FALSE, due |-> 0, repeating |-> FALSE, first |-> 0]

HasRecords(ret) == ~IsError(ret) /\ ret # Null /\ Len(ret.data) > 0

\* What a pass notes of a source it is through with: whether the fetcher gave
\* it a result with records, when it called the fetcher and when it was done.
Visit(tk) == [id |-> SourceOf(tk), ok |-> HasRecords(tk.ret), at |-> tk.at, end |-> now]

\* A faulty variant: the startup pass ends after its first source.
PassContinueSchedulesEarly(t) ==
    /\ t \in PassTasks
    /\ running = t
    /\ task[t].pc = "ret"
    /\ snapshotStore' =
          IF IsError(task[t].ret) THEN snapshotStore
          ELSE takeSnapshot(snapshotStore, SourceOf(task[t]), task[t].ret, now)
    /\ LET passed == Append(task[t].passed, Visit(task[t]))
       IN  IF t = StartupTask
           THEN Resume(t, [IdleTask EXCEPT !.pc = "schedule", !.passed = passed])
           ELSE IF task[t].idx < Len(EXCHANGE_FETCHERS)
           THEN Resume(t, [IdleTask EXCEPT !.pc = "call", !.idx = task[t].idx + 1,
                                           !.passed = passed])
           ELSE Resume(t, [IdleTask EXCEPT !.pc = "done", !.passed = passed])
    /\ UNCHANGED <<now, cache, auxVal, timer, faults, queries, log, ui, startedAt>>
\* A faulty variant: the pass leaves out the source after a failed one.
PassContinueSkipsAfterError(t) ==
    /\ t \in PassTasks
    /\ running = t
    /\ task[t].pc = "ret"
    /\ snapshotStore' =
          IF IsError(task[t].ret) THEN snapshotStore
          ELSE takeSnapshot(snapshotStore, SourceOf(task[t]), task[t].ret, now)
    /\ LET passed == Append(task[t].passed, Visit(task[t]))
           next == IF IsError(task[t].ret) /\ task[t].idx + 2 <= Len(EXCHANGE_FETCHERS)
                   THEN task[t].idx + 2 ELSE task[t].idx + 1
       IN  IF task[t].idx < Len(EXCHANGE_FETCHERS)
           THEN Resume(t, [IdleTask EXCEPT !.pc = "call", !.idx = next, !.passed = passed])
           ELSE IF t = StartupTask
           THEN Resume(t, [IdleTask EXCEPT !.pc = "schedule", !.passed = passed])
           ELSE Resume(t, [IdleTask EXCEPT !.pc = "done", !.passed = passed])
    /\ UNCHANGED <<now, cache, auxVal, timer, faults, queries, log, ui, startedAt>>
\* A faulty variant: the try/catch around the loop, so that a fetcher's
\* failure ends the pass.
PassContinueAbortsOnError(t) ==
    /\ t \in PassTasks
    /\ running = t
    /\ task[t].pc = "ret"
    /\ snapshotStore' =
          IF IsError(task[t].ret) THEN snapshotStore
          ELSE takeSnapshot(snapshotStore, SourceOf(task[t]), task[t].ret, now)
    /\ LET passed == Append(task[t].passed, Visit(task[t]))
       IN  IF task[t].idx < Len(EXCHANGE_FETCHERS) /\ ~IsError(task[t].ret)
           THEN Resume(t, [IdleTask EXCEPT !.pc = "call", !.idx = task[t].idx + 1,
                                           !.passed = passed])
           ELSE IF t = StartupTask
           THEN Resume(t, [IdleTask EXCEPT !.pc = "schedule", !.passed = passed])
           ELSE Resume(t, [IdleTask EXCEPT !.pc = "done", !.passed = passed])
    /\ UNCHANGED <<now, cache, auxVal, timer, faults, queries, log, ui, startedAt>>
\* A faulty variant: a result is recorded only if this call made it.
PassContinueOnlyFresh(t) ==
    /\ t \in PassTasks
    /\ running = t
    /\ task[t].pc = "ret"
    /\ snapshotStore' =
          IF IsError(task[t].ret) \/ task[t].requests = 0
                \/ task[t].ret.timestamp < task[t].at
          THEN snapshotStore
          ELSE takeSnapshot(snapshotStore, SourceOf(task[t]), task[t].ret, now)
    /\ LET passed == Append(task[t].passed, Visit(task[t]))
       IN  IF task[t].idx < Len(EXCHANGE_FETCHERS)
           THEN Resume(t, [IdleTask EXCEPT !.pc = "call", !.idx = task[t].idx + 1,
                                           !.passed = passed])
           ELSE IF t = StartupTask
           THEN Resume(t, [IdleTask EXCEPT !.pc = "schedule", !.passed = passed])
           ELSE Resume(t, [IdleTask EXCEPT !.pc = "done", !.passed = passed])
    /\ UNCHANGED <<now, cache, auxVal, timer, faults, queries, log, ui, startedAt>>

\* takeAllSnapshots after `await fetcher()` settled: takeSnapshot(id, data), or
\* the catch that logs; then the next source, or the end of the pass.
PassContinue(t) ==
    /\ t \in PassTasks
    /\ running = t
    /\ task[t].pc = "ret"
    /\ snapshotStore' =
          IF IsError(task[t].ret) THEN snapshotStore
          ELSE takeSnapshot(snapshotStore, SourceOf(task[t]), task[t].ret, now)
    /\ LET passed == Append(task[t].passed, Visit(task[t]))
       IN  IF task[t].idx < Len(EXCHANGE_FETCHERS)
           THEN Resume(t, [IdleTask EXCEPT !.pc = "call", !.idx = task[t].idx + 1,
                                           !.passed = passed])
           ELSE IF t = StartupTask
           THEN Resume(t, [IdleTask EXCEPT !.pc = "schedule", !.passed = passed])
           ELSE Resume(t, [IdleTask EXCEPT !.pc = "done", !.passed = passed])
    /\ UNCHANGED <<now, cache, auxVal, timer, faults, queries, log, ui, startedAt>>

\* scheduleHourlySnapshots(), called by the listen callback after the startup pass.
scheduleHourlySnapshots ==
    /\ running = StartupTask
    /\ task[StartupTask].pc = "schedule"
    /\ timer' = [armed |-> TRUE, due |-> now + msUntilNextHour(now), repeating |-> FALSE,
                 first |-> now + msUntilNextHour(now)]
    /\ Resume(StartupTask, [task[StartupTask] EXCEPT !.pc = "done"])
    /\ UNCHANGED <<now, cache, auxVal, snapshotStore, faults, queries, log, ui, startedAt>>

\* A faulty variant: the callback runs without waiting for the hour.
HourlyFireEarly ==
    /\ running = NoTask
    /\ timer.armed
    /\ \E h \in HourlyTasks :
         /\ task[h].pc = "idle"
         /\ h = "hourly2" => task["hourly1"].pc # "idle"
         /\ Resume(h, [IdleTask EXCEPT !.pc = "call", !.idx = 1])
    /\ timer' = [timer EXCEPT !.due = now + HourMs, !.repeating = TRUE]
    /\ UNCHANGED <<now, cache, auxVal, snapshotStore, faults, queries, log, ui, startedAt>>
\* A faulty variant: the repeating timer is due again at once.
HourlyFireAgainAtOnce ==
    /\ running = NoTask
    /\ timer.armed
    /\ now >= timer.due
    /\ \E h \in HourlyTasks :
         /\ task[h].pc = "idle"
         /\ h = "hourly2" => task["hourly1"].pc # "idle"
         /\ Resume(h, [IdleTask EXCEPT !.pc = "call", !.idx = 1])
    /\ timer' = [timer EXCEPT !.due = now, !.repeating = TRUE]
    /\ UNCHANGED <<now, cache, auxVal, snapshotStore, faults, queries, log, ui, startedAt>>

\* The timer callback: takeAllSnapshots() (not awaited), and the timer goes on
\* every hour (setInterval).  A pass the timer started stays "done" when over.
HourlyFire ==
    /\ running = NoTask
    /\ timer.armed
    /\ now >= timer.due
    /\ \E h \in HourlyTasks :
         /\ task[h].pc = "idle"
         /\ h = "hourly2" => task["hourly1"].pc # "idle"
         /\ Resume(h, [IdleTask EXCEPT !.pc = "call", !.idx = 1])
    /\ timer' = [timer EXCEPT !.due = now + HourMs, !.repeating = TRUE]
    /\ UNCHANGED <<now, cache, auxVal, snapshotStore, faults, queries, log, ui, startedAt>>

(***************************************************************************)
(* The query endpoints (createExchangeHandler).                            *)
(***************************************************************************)
QueryArrive(q, i) ==
    /\ q \in QueryTasks
    /\ running = NoTask
    /\ task[q].pc = "idle"
    /\ queries < MaxQueries
    /\ queries' = queries + 1
    /\ Resume(q, [IdleTask EXCEPT !.pc = "call", !.idx = i])
    /\ UNCHANGED <<now, cache, auxVal, snapshotStore, timer, faults, log, ui, startedAt>>

\* A faulty variant: a failure is answered like a result, with no records.
ResponseOfMasksError(ret, id) ==
    IF IsError(ret)
    THEN [status |-> 200, id |-> id, data |-> <<>>, timestamp |-> now,
          snapshots |-> getSnapshots(snapshotStore, id)]
    ELSE [status |-> 200, id |-> id, data |-> ret.data, timestamp |-> ret.timestamp,
          snapshots |-> getSnapshots(snapshotStore, id)]
\* res.json({...result, snapshots}) or res.status(500).json({error, details})
ResponseOf(ret, id) ==
    IF IsError(ret)
    THEN [status |-> 500, id |-> id, error |-> ret]
    ELSE [status |-> 200, id |-> id, data |-> ret.data, timestamp |-> ret.timestamp,
          snapshots |-> getSnapshots(snapshotStore, id)]

\* A faulty variant: the handler records a snapshot of what it serves.
QueryRespondTakesSnapshot(q) ==
    /\ q \in QueryTasks
    /\ running = q
    /\ task[q].pc = "ret"
    /\ Resume(q, [task[q] EXCEPT !.pc = "sent", !.ret = ResponseOf(task[q].ret, SourceOf(task[q]))])
    /\ snapshotStore' =
          IF IsError(task[q].ret) THEN snapshotStore
          ELSE takeSnapshot(snapshotStore, SourceOf(task[q]), task[q].ret, now)
    /\ UNCHANGED <<now, cache, auxVal, timer, faults, queries, log, ui, startedAt>>
\* The handler after `await fetcher()` settled: it sends its response.
QueryRespond(q) ==
    /\ q \in QueryTasks
    /\ running = q
    /\ task[q].pc = "ret"
    /\ Resume(q, [task[q] EXCEPT !.pc = "sent", !.ret = ResponseOf(task[q].ret, SourceOf(task[q]))])
    /\ UNCHANGED <<now, cache, auxVal, snapshotStore, timer, faults, queries, log, ui, startedAt>>

\* The handler returns.
QueryDone(q) ==
    /\ q \in QueryTasks
    /\ running = q
    /\ task[q].pc = "sent"
    /\ Resume(q, IdleTask)
    /\ UNCHANGED <<now, cache, auxVal, snapshotStore, timer, faults, queries, log, ui, startedAt>>

\* app.get('/api/health'): res.json({ status: 'ok', uptime: process.uptime() }),
\* the uptime in seconds, as an exact fraction.
HealthResponse == [status |-> "ok", uptime |-> [n |-> now - startedAt, d |-> 1000]]

(***************************************************************************)
(* Time.  A timer fires when it is due, and a request is settled before    *)
(* its timeout (a timeout is the failure without a status): the clock      *)
(* never passes a pending timer and never reaches a pending timeout.       *)
(***************************************************************************)
Deadlines ==
    {task[t].wake : t \in {u \in Tasks : task[u].pc \in {"request", "backoff", "delay"}}}
        \cup (IF timer.armed THEN {timer.due} ELSE {})

Advance ==
    /\ running = NoTask
    /\ \E target \in Deadlines \cup {now + TickMs} :
         /\ target > now
         /\ target <= MaxTime
         /\ \A d \in Deadlines : target <= d
         /\ \A t \in Tasks : task[t].pc = "request" => target < task[t].wake
         /\ now' = target
    /\ UNCHANGED <<cache, auxVal, snapshotStore, task, running, timer,
                   faults, queries, log, ui, startedAt>>

(***************************************************************************)
(* The server: the listen callback starts the startup pass at once.        *)
(***************************************************************************)
StartTimes == {0, 3599800}

InitCaches ==
    [c \in TickerCaches \cup AuxCaches |->
        IF c \in TickerCaches THEN DataCache(TickerCacheMs) ELSE DataCache(AuxCacheMs)]

Init ==
    /\ now \in StartTimes
    /\ cache = InitCaches
    /\ auxVal = [v \in AuxVars |-> Null]
    /\ snapshotStore = << >>
    /\ task = [t \in Tasks |->
                 IF t = StartupTask THEN [IdleTask EXCEPT !.pc = "call", !.idx = 1]
                 ELSE IdleTask]
    /\ running = StartupTask
    /\ timer = NoTimer
    /\ faults = 0
    /\ queries = 0
    /\ log = << >>
    /\ ui = NoUi
    /\ startedAt = now

Next ==
    \/ \E t \in Tasks : CallFetcher(t)
    \/ \E t \in Tasks : Response(t)
    \/ \E t \in Tasks : BackoffFire(t)
    \/ \E t \in Tasks : SpacingFire(t)
    \/ \E t \in PassTasks : PassContinue(t)
    \/ scheduleHourlySnapshots
    \/ HourlyFire
    \/ \E q \in QueryTasks, i \in 1..Len(EXCHANGE_FETCHERS) : QueryArrive(q, i)
    \/ \E q \in QueryTasks : QueryRespond(q)
    \/ \E q \in QueryTasks : QueryDone(q)
    \/ Advance

Spec == Init /\ [][Next]_vars

(***************************************************************************)
(* The scheduler on its own, over two hours: the startup pass, the timer   *)
(* and the passes it starts, with no query arriving.                       *)
(***************************************************************************)
AdvanceHours ==
    /\ running = NoTask
    /\ \E target \in Deadlines \cup {now + TickMs} :
         /\ target > now
         /\ target <= MaxHoursTime
         /\ \A d \in Deadlines : target <= d
         /\ \A t \in Tasks : task[t].pc = "request" => target < task[t].wake
         /\ now' = target
    /\ UNCHANGED <<cache, auxVal, snapshotStore, task, running, timer,
                   faults, queries, log, ui, startedAt>>

NextHours ==
    \/ \E t \in PassTasks : CallFetcher(t)
    \/ \E t \in PassTasks : Response(t)
    \/ \E t \in PassTasks : BackoffFire(t)
    \/ \E t \in PassTasks : SpacingFire(t)
    \/ \E t \in PassTasks : PassContinue(t)
    \/ scheduleHourlySnapshots
    \/ HourlyFire
    \/ AdvanceHours

SpecHours == Init /\ [][NextHours]_vars

(***************************************************************************)
(* scheduleHourlySnapshots on its own: called at any minute of the hour,   *)
(* at the seconds and milliseconds below, after which the clock runs to    *)
(* the time the timer is set for.                                          *)
(***************************************************************************)
SampleSeconds == {0, 1, 30, 59}
SampleMillis == {0, 1, 500, 999}
Instants ==
    {m * MinuteMs + s * 1000 + ms : m \in 0..59, s \in SampleSeconds, ms \in SampleMillis}

InitSchedule ==
    /\ now \in Instants
    /\ cache = InitCaches
    /\ auxVal = [v \in AuxVars |-> Null]
    /\ snapshotStore = << >>
    /\ task = [t \in Tasks |->
                 IF t = StartupTask THEN [IdleTask EXCEPT !.pc = "schedule"] ELSE IdleTask]
    /\ running = StartupTask
    /\ timer = NoTimer
    /\ faults = 0
    /\ queries = 0
    /\ log = << >>
    /\ ui = NoUi
    /\ startedAt = now

NextSchedule ==
    \/ scheduleHourlySnapshots
    \/ Advance

SpecSchedule == InitSchedule /\ [][NextSchedule]_vars

(***************************************************************************)
(* fetchWithRetry on its own: one call, every request of which may fail    *)
(* with any of ErrorStatuses, and the log of what it did.                  *)
(***************************************************************************)
InitRetry ==
    /\ now \in StartTimes
    /\ cache = InitCaches
    /\ auxVal = [v \in AuxVars |-> Null]
    /\ snapshotStore = << >>
    /\ task = [t \in Tasks |-> IF t = Probe THEN [IdleTask EXCEPT !.pc = "call"] ELSE IdleTask]
    /\ running = Probe
    /\ timer = NoTimer
    /\ faults = 0
    /\ queries = 0
    /\ log = << >>
    /\ ui = NoUi
    /\ startedAt = now

NextRetry ==
    \/ ProbeCall
    \/ Response(Probe)
    \/ BackoffFire(Probe)
    \/ Advance

SpecRetry == InitRetry /\ [][NextRetry]_vars

\* The same with the event loop's progress: a request pending is settled (by
\* a response, an error or the axios timeout) and a timer due is fired.
SpecRetryFair == SpecRetry /\ WF_vars(NextRetry)

(***************************************************************************)
(* The snapshot store on its own: takeSnapshot called for any exchange id  *)
(* with no data, an empty result or a ranked result, one call an hour;     *)
(* `log` holds the last call.                                              *)
(***************************************************************************)
StoreInputs ==
    {Null,
     [data |-> << >>, timestamp |-> now],
     [data |-> BitgetTop100(BitgetShort), timestamp |-> now]}

InitStore ==
    /\ now = 0
    /\ cache = InitCaches
    /\ auxVal = [v \in AuxVars |-> Null]
    /\ snapshotStore = << >>
    /\ task = [t \in Tasks |-> IdleTask]
    /\ running = NoTask
    /\ timer = NoTimer
    /\ faults = 0
    /\ queries = 0
    /\ log = << >>
    /\ ui = NoUi
    /\ startedAt = now

StoreCall ==
    /\ now < MaxStoreCalls * HourMs
    /\ \E id \in ExchangeIds, data \in StoreInputs :
          /\ snapshotStore' = takeSnapshot(snapshotStore, id, data, now)
          /\ log' = <<[ev |-> "takeSnapshot", id |-> id, at |-> now, data |-> data,
                       records |-> IF data = Null THEN 0 ELSE Len(data.data)]>>
    /\ now' = now + HourMs
    /\ UNCHANGED <<cache, auxVal, task, running, timer, faults, queries, ui, startedAt>>

NextStore == StoreCall

SpecStore == InitStore /\ [][NextStore]_vars

(***************************************************************************)
(* The ranking on its own: each fetcher's filter, map, sort and cut        *)
(* applied to short and long ticker lists (with and without its auxiliary  *)
(* list), the result stored in the fetcher's cache as the fetcher does.    *)
(***************************************************************************)
RankInputs(id) ==
    CASE id = "binance-futures" ->
            {[tickers |-> tk, local |-> l] :
                tk \in {BinanceShort, BinanceLong},
                l \in {Null, [set |-> ActiveSymbols(ExchangeInfoShort)]}}
      [] id = "bitget-spot" ->
            {[tickers |-> tk, local |-> Null] : tk \in {BitgetShort, BitgetLong}}
      [] id = "upbit-spot" ->
            {[tickers |-> tk, local |-> Null] : tk \in {UpbitShort, UpbitNoUsdt, UpbitZeroUsdt, UpbitLong}}
      [] id = "binance-alpha" ->
            {[tickers |-> BinanceShort, local |-> [list |-> AlphaShort]],
             [tickers |-> BinanceShort, local |-> [list |-> AlphaRepeated]],
             [tickers |-> BinanceLong, local |-> [list |-> AlphaLong]]}

\* What each fetcher makes of each of its inputs.
RankResults ==
    [id \in ExchangeIds |->
        {[tickers |-> inp.tickers, local |-> inp.local,
          top100 |-> Top100(id, inp.tickers, inp.local)] : inp \in RankInputs(id)}]

InitRank == InitStore

\* cache.set(result) with result = { data: top100, timestamp: Date.now() };
\* `log` notes the ticker list and the auxiliary value the result was made of.
RankCall ==
    /\ \E id \in ExchangeIds :
          \E r \in RankResults[id] :
             /\ cache' = [cache EXCEPT ![TickerCacheOf(id)] =
                             set(@, [data |-> r.top100, timestamp |-> now], now)]
             /\ log' = <<[ev |-> "rank", id |-> id, tickers |-> r.tickers, local |-> r.local]>>
    /\ UNCHANGED <<now, auxVal, snapshotStore, task, running, timer, faults, queries, ui, startedAt>>

NextRank == RankCall

SpecRank == InitRank /\ [][NextRank]_vars

(***************************************************************************)
(* The server variant whose results carry a `total` next to the records:   *)
(* the records are made as above, and the total is counted per fetcher.    *)
(***************************************************************************)
\* total: totalActive (Binance, Bitget), tickers.length - 1 (Upbit),
\* alphaSymbolSet.size (Alpha).
Total(id, tickers, local) ==
    CASE id = "binance-futures" ->
            LET Keep(t) == BinanceKeep(t, local) IN Len(SelectSeq(tickers, Keep))
      [] id = "bitget-spot" -> Len(SelectSeq(tickers, BitgetKeep))
      [] id = "upbit-spot" -> Len(tickers) - 1
      [] id = "binance-alpha" -> Cardinality(AlphaSymbolSet(local.list))

\* What each fetcher of that variant makes of each of its inputs.
TotalResults ==
    [id \in ExchangeIds |->
        {[tickers |-> r.tickers, local |-> r.local, top100 |-> r.top100,
          total |-> Total(id, r.tickers, r.local)] : r \in RankResults[id]}]

\* cache.set(result) with result = { data, timestamp: Date.now(), total }
TotalCall ==
    /\ \E id \in ExchangeIds :
          \E r \in TotalResults[id] :
             /\ cache' = [cache EXCEPT ![TickerCacheOf(id)] =
                             set(@, [data |-> r.top100, timestamp |-> now,
                                     total |-> r.total], now)]
             /\ log' = <<[ev |-> "total", id |-> id, tickers |-> r.tickers, local |-> r.local]>>
    /\ UNCHANGED <<now, auxVal, snapshotStore, task, running, timer, faults, queries, ui, startedAt>>

NextTotal == TotalCall

SpecTotal == InitRank /\ [][NextTotal]_vars

(***************************************************************************)
(* The dashboard: the hook useExchangeData and the component App.  `ui`    *)
(* holds the React state (activeTab and the four maps, an absent key being *)
(* Null or FALSE), the tab the running interval was set for, whether the   *)
(* effect of the last tab change is still to run, the number of tab        *)
(* changes so far, and the fetchData calls in flight.  Every setState of a *)
(* resumed fetchData is a step of its own.                                 *)
(***************************************************************************)
TABS == EXCHANGE_FETCHERS
TabIds == {TABS[i] : i \in 1..Len(TABS)}
REFRESH_INTERVAL == 60000

\* At most so many fetchData calls are in flight, the interval fires until
\* the clock shows MaxUiTime, and the user changes tabs MaxTabChanges times.
MaxFetches == 2
MaxUiTime == 60000
MaxTabChanges == 1
Fetches == 1..MaxFetches

NoFetch == [pc |-> "none", tabId |-> ""]

\* What fetch(tab.endpoint) can settle with: the server's response to the
\* query (200 with a result, or 500), or a rejection (no connection).
FetchOutcomes(tabId) ==
    {[kind |-> "response", ok |-> TRUE,
      json |-> ResponseOf([data |-> Top100(tabId, inp.tickers, inp.local), timestamp |-> now],
                          tabId)] :
        inp \in {x \in RankInputs(tabId) : Len(x.tickers) < LongLen}}
    \cup {[kind |-> "response", ok |-> FALSE,
           json |-> ResponseOf(AxiosError(NoStatus, MaxRetries), tabId)],
          [kind |-> "reject"]}

\* err.message
ErrorMessage(o) ==
    IF o.kind = "reject" THEN [message |-> "Failed to fetch"]
    ELSE [message |-> "HTTP error", status |-> o.json.status]

\* fetchData(tabId) up to its await: loading on, error cleared, request out.
fetchData(f, tabId) ==
    /\ ui.fetch[f].pc = "none"
    /\ \A g \in Fetches : g < f => ui.fetch[g].pc # "none"
    /\ ui' = [ui EXCEPT !.loadingMap[tabId] = TRUE,
                        !.errorMap[tabId] = Null,
                        !.fetch[f] = [pc |-> "fetch", tabId |-> tabId]]

\* useEffect(..., [activeTab, fetchData]): on mount and after a tab change,
\* fetch the tab's data if it has none, and set the interval anew.
RunEffect ==
    /\ ui.open
    /\ ui.effect
    /\ IF ui.dataMap[ui.activeTab] = Null
       THEN \E f \in Fetches :
               /\ ui.fetch[f].pc = "none"
               /\ \A g \in Fetches : g < f => ui.fetch[g].pc # "none"
               /\ ui' = [ui EXCEPT !.loadingMap[ui.activeTab] = TRUE,
                                   !.errorMap[ui.activeTab] = Null,
                                   !.fetch[f] = [pc |-> "fetch", tabId |-> ui.activeTab],
                                   !.effect = FALSE,
                                   !.intervalTab = ui.activeTab]
       ELSE ui' = [ui EXCEPT !.effect = FALSE, !.intervalTab = ui.activeTab]
    /\ UNCHANGED <<now, cache, auxVal, snapshotStore, task, running, timer, faults, queries, log, startedAt>>

\* setInterval(() => fetchData(activeTab), REFRESH_INTERVAL) fires.
IntervalFire ==
    /\ ui.open
    /\ ui.intervalTab \in TabIds
    /\ now + REFRESH_INTERVAL <= MaxUiTime
    /\ now' = now + REFRESH_INTERVAL
    /\ \E f \in Fetches : fetchData(f, ui.intervalTab)
    /\ UNCHANGED <<cache, auxVal, snapshotStore, task, running, timer, faults, queries, log, startedAt>>

\* handleRefresh, from the header's button or the error view's: fetchData(activeTab).
handleRefresh ==
    /\ ui.open
    /\ \E f \in Fetches : fetchData(f, ui.activeTab)
    /\ UNCHANGED <<now, cache, auxVal, snapshotStore, task, running, timer, faults, queries, log, startedAt>>

\* handleTabChange(tabId): setActiveTab(tabId); the effect runs if the tab changed.
handleTabChange(tabId) ==
    /\ ui.open
    /\ ~ui.effect
    /\ tabId # ui.activeTab
    /\ ui.changes < MaxTabChanges
    /\ ui' = [ui EXCEPT !.activeTab = tabId, !.effect = TRUE, !.changes = @ + 1]
    /\ UNCHANGED <<now, cache, auxVal, snapshotStore, task, running, timer, faults, queries, log, startedAt>>

\* A faulty variant: a failed fetch drops the tab's data.
FetchSettledDropsData(f) ==
    /\ ui.fetch[f].pc = "fetch"
    /\ LET tabId == ui.fetch[f].tabId
       IN  \E o \in FetchOutcomes(tabId) :
              IF o.kind = "response" /\ o.ok
              THEN ui' = [ui EXCEPT !.dataMap[tabId] = o.json,
                                    !.received[tabId] = TRUE,
                                    !.fetch[f].pc = "setLastUpdate"]
              ELSE ui' = [ui EXCEPT !.errorMap[tabId] = ErrorMessage(o),
                                    !.dataMap[tabId] = Null,
                                    !.fetch[f].pc = "finally"]
    /\ UNCHANGED <<now, cache, auxVal, snapshotStore, task, running, timer, faults, queries, log, startedAt>>
\* fetchData resumed: setDataMap with the parsed result of an ok response,
\* or the catch's setErrorMap.  `received` notes that the tab got data once.
FetchSettled(f) ==
    /\ ui.fetch[f].pc = "fetch"
    /\ LET tabId == ui.fetch[f].tabId
       IN  \E o \in FetchOutcomes(tabId) :
              IF o.kind = "response" /\ o.ok
              THEN ui' = [ui EXCEPT !.dataMap[tabId] = o.json,
                                    !.received[tabId] = TRUE,
                                    !.fetch[f].pc = "setLastUpdate"]
              ELSE ui' = [ui EXCEPT !.errorMap[tabId] = ErrorMessage(o),
                                    !.fetch[f].pc = "finally"]
    /\ UNCHANGED <<now, cache, auxVal, snapshotStore, task, running, timer, faults, queries, log, startedAt>>

\* setLastUpdateMap(prev => ({ ...prev, [tabId]: new Date() }))
SetLastUpdate(f) ==
    /\ ui.fetch[f].pc = "setLastUpdate"
    /\ ui' = [ui EXCEPT !.lastUpdateMap[ui.fetch[f].tabId] = [date |-> now],
                        !.fetch[f].pc = "finally"]
    /\ UNCHANGED <<now, cache, auxVal, snapshotStore, task, running, timer, faults, queries, log, startedAt>>

\* finally: setLoadingMap(prev => ({ ...prev, [tabId]: false }))
FetchFinally(f) ==
    /\ ui.fetch[f].pc = "finally"
    /\ ui' = [ui EXCEPT !.loadingMap[ui.fetch[f].tabId] = FALSE,
                        !.fetch[f] = NoFetch]
    /\ UNCHANGED <<now, cache, auxVal, snapshotStore, task, running, timer, faults, queries, log, startedAt>>

\* What App renders for the active tab.
ErrorView == ui.errorMap[ui.activeTab] # Null /\ ui.dataMap[ui.activeTab] = Null
LoadingView == ui.loadingMap[ui.activeTab] /\ ui.dataMap[ui.activeTab] = Null
TableView == ~LoadingView /\ ui.dataMap[ui.activeTab] # Null

\* The dashboard is loaded: the first tab is active and its effect is to run.
InitDashboard ==
    /\ now = 0
    /\ cache = InitCaches
    /\ auxVal = [v \in AuxVars |-> Null]
    /\ snapshotStore = << >>
    /\ task = [t \in Tasks |-> IdleTask]
    /\ running = NoTask
    /\ timer = NoTimer
    /\ faults = 0
    /\ queries = 0
    /\ log = << >>
    /\ ui = [open |-> TRUE, activeTab |-> TABS[1], effect |-> TRUE, intervalTab |-> "",
             changes |-> 0,
             dataMap |-> [t \in TabIds |-> Null],
             loadingMap |-> [t \in TabIds |-> FALSE],
             errorMap |-> [t \in TabIds |-> Null],
             lastUpdateMap |-> [t \in TabIds |-> Null],
             received |-> [t \in TabIds |-> FALSE],
             fetch |-> [f \in Fetches |-> NoFetch]]
    /\ startedAt = now

NextDashboard ==
    \/ RunEffect
    \/ IntervalFire
    \/ handleRefresh
    \/ \E tabId \in TabIds : handleTabChange(tabId)
    \/ \E f \in Fetches : FetchSettled(f)
    \/ \E f \in Fetches : SetLastUpdate(f)
    \/ \E f \in Fetches : FetchFinally(f)

SpecDashboard == InitDashboard /\ [][NextDashboard]_vars

(***************************************************************************)
(* Properties of fetchWithRetry, read off the log of the instrumented call *)
(* (SpecRetry).                                                            *)
(***************************************************************************)
LogIndices == 1..Len(log)
\* The log entries of requests that failed (each ends in a wait or a throw).
FailureIndices == {i \in LogIndices : log[i].ev \in {"wait", "throw"}}
RequestIndices == {i \in LogIndices : log[i].ev = "request"}
ClientErrorStatus(st) == st >= 400 /\ st <= 499 /\ st # 418 /\ st # 429
ProbeThrew == task[Probe].pc = "done" /\ task[Probe].ret.kind = "throw"

\* C5: a request of fetchWithRetry that fails with a status in 400..499 other
\* than 418 and 429 ends the call at once, on whichever attempt: the failure is
\* itself the throw of that request's error, and nothing (no wait, no request)
\* follows it in the log.
C5_ClientErrorIsTerminal ==
    \A i \in FailureIndices :
        ClientErrorStatus(log[i].status) =>
            /\ log[i].ev = "throw"
            /\ i = Len(log)
            /\ ProbeThrew
            /\ task[Probe].ret.value.status = log[i].status
            /\ task[Probe].ret.value.attempt = log[i].attempt

\* A 404 on the second request, after a transient failure of the first.
C5_Witness ==
    /\ ProbeThrew
    /\ Len(log) = 5
    /\ log[5].ev = "throw" /\ log[5].status = 404 /\ log[5].attempt = 1
    /\ log[3].ev = "wait" /\ log[3].status = 503

\* C6: a call of fetchWithRetry whose requests keep failing with transient
\* errors (418, 429, 5xx, or no status: timeout or network error) sends exactly
\* 3 requests: the first at the instant of the call, the second 2000 ms after
\* the first failed, the third 4000 ms after the second failed; and no call
\* ever sends more than 3.
C6_ThreeAttemptsWithBackoff ==
    /\ Cardinality(RequestIndices) <= 3
    /\ \A i \in RequestIndices :
          /\ log[i].attempt = Cardinality({j \in RequestIndices : j < i})
          /\ log[i].attempt = 0 => i = 2 /\ log[1].ev = "call" /\ log[i].at = log[1].at
          /\ log[i].attempt = 1 =>
                log[i - 1].ev = "wait" /\ log[i].at - log[i - 1].at = 2000
          /\ log[i].attempt = 2 =>
                log[i - 1].ev = "wait" /\ log[i].at - log[i - 1].at = 4000
    /\ (ProbeThrew /\ \A i \in FailureIndices : ~ClientErrorStatus(log[i].status))
          => Cardinality(RequestIndices) = 3 /\ Cardinality(FailureIndices) = 3

\* Three transient failures (a 429, a timeout, a 500): the call has thrown
\* 6000 ms after it began.
C6_Witness ==
    /\ ProbeThrew
    /\ Cardinality(RequestIndices) = 3
    /\ {log[i].status : i \in FailureIndices} = {429, NoStatus, 500}
    /\ now - log[1].at = 6000

\* C7: when every request of a call of fetchWithRetry failed with a retryable
\* error, the call throws once the third has failed, and what it throws is the
\* error of that last failed request itself: the axios error with its status,
\* not a wrapper; and a call that has ended has either returned a response or
\* thrown, never returned nothing.
C7_ExhaustionSurfacesOriginalError ==
    /\ task[Probe].pc = "done" =>
          /\ task[Probe].ret.kind \in {"return", "throw"}
          /\ task[Probe].ret.kind = "return" =>
                log[Len(log)].ev = "ok" /\ task[Probe].ret.value \in Replies(UrlOf(Probe))
          /\ task[Probe].ret.kind = "throw" => log[Len(log)].ev = "throw"
    /\ (Cardinality(FailureIndices) = 3
          /\ \A i \in FailureIndices : ~ClientErrorStatus(log[i].status))
          => /\ ProbeThrew
             /\ task[Probe].ret.value =
                   [error |-> "AxiosError", status |-> log[Len(log)].status, attempt |-> 2]
             /\ log[Len(log)].ev = "throw" /\ log[Len(log)].attempt = 2

\* Three 503s: the call has thrown the third one.
C7_Witness ==
    /\ ProbeThrew
    /\ Cardinality(FailureIndices) = 3
    /\ \A i \in FailureIndices : log[i].status = 503
    /\ task[Probe].ret.value.status = 503

(***************************************************************************)
(* Properties of the snapshot store (SpecStore).                           *)
(***************************************************************************)
\* What the call a step made (log' names it) did to the history of `id`: a
\* call for another id, or with no records, left it alone; a call for `id` with
\* records put one snapshot, taken at the time of the call, last, and dropped
\* exactly the oldest if there were 6 already.
FifoStep(id) ==
    LET old == getSnapshots(snapshotStore, id)
        new == getSnapshots(snapshotStore', id)
        call == log'[1]
    IN  IF call.id = id /\ call.records > 0
        THEN /\ new[Len(new)].timestamp = call.at
             /\ \/ /\ Len(old) < 6
                   /\ Len(new) = Len(old) + 1
                   /\ SubSeq(new, 1, Len(old)) = old
                \/ /\ Len(old) = 6
                   /\ Len(new) = 6
                   /\ SubSeq(new, 1, 5) = SubSeq(old, 2, 6)
        ELSE new = old

\* C1: whatever takeSnapshot calls were made, for whatever exchange ids, no
\* history holds more than 6 snapshots, and a call that appends to a history
\* of 6 removes exactly its oldest snapshot: the other five keep their order
\* and the new one is last.
C1_HistoryBoundedFifo ==
    /\ [](\A id \in ExchangeIds : Len(getSnapshots(snapshotStore, id)) <= 6)
    /\ [][\A id \in ExchangeIds : FifoStep(id)]_vars

\* A history of 6 whose oldest snapshot is not the first one taken for it, and
\* whose snapshots are in the order they were taken.
C1_Witness ==
    \E id \in ExchangeIds :
        LET h == getSnapshots(snapshotStore, id)
        IN  /\ Len(h) = 6
            /\ h[1].timestamp = HourMs
            /\ h[6].timestamp = 6 * HourMs
            /\ \A i \in 1..5 : h[i].timestamp < h[i + 1].timestamp

(***************************************************************************)
(* Properties of the server (Spec).                                        *)
(***************************************************************************)
FetcherTasks == PassTasks \cup QueryTasks
Returned(t) == task[t].pc = "ret"
\* Whether the ticker cache held, when the fetcher was called, a result stored
\* less than 60 s before.
WasFresh(tk) == tk.seen.data # Null /\ tk.at - tk.seen.lastFetchTime < 60000

\* C2: a step of a query handler (its fetcher call, its upstream requests and
\* waits, its response, whether from the cache, after a refresh or after a
\* failure) leaves every snapshot history as it was; a step that changes a
\* history is a pass (startup or hourly) recording what its fetcher returned.
C2_QueriesNeverSnapshot ==
    [][/\ (\E q \in QueryTasks : task'[q] # task[q]) => snapshotStore' = snapshotStore
       /\ snapshotStore' # snapshotStore =>
             \E t \in PassTasks : running = t /\ Returned(t) /\ task'[t] # task[t]]_vars

\* A query answered 200 after its own upstream refresh, for a source that has
\* a snapshot, while the cache it refreshed is newer than that snapshot.
C2_Witness ==
    \E q \in QueryTasks :
        /\ task[q].pc = "sent"
        /\ task[q].requests > 0
        /\ task[q].ret.status = 200
        /\ Len(task[q].ret.snapshots) = 1
        /\ task[q].ret.timestamp > task[q].ret.snapshots[1].timestamp

\* C3: for every source, a fetcher called while its cache holds a result stored
\* less than 60 s before returns that very result and sends no upstream
\* request; called with nothing cached, or with a result 60 s old or older, it
\* sends an upstream request; and isValid is true exactly when a result is
\* present and now - lastFetchTime < duration.
C3_CacheContract ==
    /\ \A t \in FetcherTasks :
          Returned(t) =>
             /\ WasFresh(task[t]) =>
                   task[t].requests = 0 /\ task[t].ret = task[t].seen.data
             /\ ~WasFresh(task[t]) => task[t].requests >= 1
    /\ \A c \in TickerCaches \cup AuxCaches :
          isValid(cache[c], now) <=>
             (cache[c].data # Null /\ now - cache[c].lastFetchTime < cache[c].duration)

\* C4: a fetcher whose refresh failed returns the cached result if there is
\* one; it fails (its caller gets the error) only when nothing is cached for
\* its source, and it never returns nothing.
C4_FailureFallsBackToCache ==
    \A t \in FetcherTasks :
        Returned(t) =>
           LET c == cache[TickerCacheOf(SourceOf(task[t]))]
           IN  /\ task[t].ret # Null
               /\ IsError(task[t].ret) => c.data = Null
               /\ ~IsError(task[t].ret) => task[t].ret = c.data

\* A fetcher called with a stale cached result sent a request, which failed,
\* and returned the stale result.
C4_Witness ==
    \E t \in FetcherTasks :
        /\ Returned(t)
        /\ task[t].seen.data # Null
        /\ ~WasFresh(task[t])
        /\ task[t].requests >= 1
        /\ faults = 1
        /\ task[t].ret = task[t].seen.data
        /\ task[t].ret.timestamp < task[t].at

\* C9: in every snapshot of every history the ranks are exactly 1..N, N the
\* number of symbols of the snapshot's rankings: no gap, no rank twice.
C9_RanksDense ==
    \A id \in DOMAIN snapshotStore :
        \A i \in 1..Len(snapshotStore[id]) :
            LET r == snapshotStore[id][i].rankings
                N == Cardinality(DOMAIN r)
            IN  /\ {r[sym].rank : sym \in DOMAIN r} = 1..N
                /\ \A a, b \in DOMAIN r : r[a].rank = r[b].rank => a = b

\* Every source has a snapshot, and one of them ranks 3 symbols or more.
C9_Witness ==
    /\ DOMAIN snapshotStore = ExchangeIds
    /\ \E id \in ExchangeIds :
          Cardinality(DOMAIN snapshotStore[id][1].rankings) >= 3

\* C10 as stated: once the hourly timer is armed, the startup pass is over and
\* every source has its first snapshot.
C10_EverySourceHasFirstSnapshot ==
    timer.armed =>
        /\ task[StartupTask].pc = "done"
        /\ \A id \in ExchangeIds : Len(getSnapshots(snapshotStore, id)) >= 1

\* C10, amended: the server starts in its startup pass; the hourly timer is
\* armed only once that pass is through with all four sources in order, and
\* then every source whose fetcher gave the pass a result with records has its
\* first snapshot (until the timer fires: exactly that one, taken before the
\* timer is due), and a source whose fetch failed or gave no records has none
\* until the timer fires; no hourly pass runs before the timer is armed.
C10_TimerArmedAfterStartupPass ==
    /\ ~timer.armed =>
          /\ task[StartupTask].pc # "done"
          /\ \A h \in HourlyTasks : task[h].pc = "idle"
    /\ timer.armed =>
          /\ task[StartupTask].pc = "done"
          /\ Len(task[StartupTask].passed) = Len(EXCHANGE_FETCHERS)
          /\ \A i \in 1..Len(EXCHANGE_FETCHERS) :
                LET p == task[StartupTask].passed[i]
                    h == getSnapshots(snapshotStore, p.id)
                IN  /\ p.id = EXCHANGE_FETCHERS[i]
                    /\ p.ok => Len(h) >= 1
                    /\ (p.ok /\ ~timer.repeating) => Len(h) = 1 /\ h[1].timestamp < timer.due
                    /\ (~p.ok /\ ~timer.repeating) => Len(h) = 0

\* The timer is armed, three sources have their first snapshot, and the one
\* whose fetch failed has none.
C10_Witness ==
    /\ timer.armed
    /\ ~timer.repeating
    /\ Cardinality({i \in 1..Len(task[StartupTask].passed) : task[StartupTask].passed[i].ok}) = 3
    /\ Cardinality(DOMAIN snapshotStore) = 3

(***************************************************************************)
(* Properties of the ranking (SpecRank).                                   *)
(***************************************************************************)
\* a >= b for the exact fractions the records hold.
VolumeGe(a, b) == a.n * b.d >= b.n * a.d

\* C8: for each of the four sources, whatever ticker list the exchange sent, the
\* result the fetcher stores in its cache (and returns) has at most 100 records
\* and their quoteVolume never increases from one record to the next.
C8_Top100Sorted ==
    \A id \in ExchangeIds :
        LET c == cache[TickerCacheOf(id)]
        IN  c.data # Null =>
               /\ Len(c.data.data) <= 100
               /\ \A i \in 1..(Len(c.data.data) - 1) :
                     VolumeGe(c.data.data[i].quoteVolume, c.data.data[i + 1].quoteVolume)

\* Every cache holds a result cut to 100 records from a longer list, whose
\* volumes are not all the same.
C8_Witness ==
    \A id \in ExchangeIds :
        LET c == cache[TickerCacheOf(id)]
        IN  /\ c.data # Null
            /\ Len(c.data.data) = 100
            /\ c.data.data[1].quoteVolume # c.data.data[100].quoteVolume

(***************************************************************************)
(* Properties of the hourly passes (Spec).                                 *)
(***************************************************************************)
\* The visits of pass t that gave source id a snapshot.
OkVisits(t, id) ==
    {i \in 1..Len(task[t].passed) : task[t].passed[i].id = id /\ task[t].passed[i].ok}

\* The hour boundaries the timer has fired at so far.
Firings == IF timer.repeating THEN (timer.due - timer.first) \div HourMs ELSE 0

\* The passes the timer has started.
StartedHourly == {h \in HourlyTasks : task[h].pc # "idle"}

\* A pass is through with a prefix of EXCHANGE_FETCHERS, each source once.
VisitsInOrder(t) ==
    /\ Len(task[t].passed) <= Len(EXCHANGE_FETCHERS)
    /\ \A i \in 1..Len(task[t].passed) : task[t].passed[i].id = EXCHANGE_FETCHERS[i]

\* C11 as stated: once the passes the timer started are over, every source has
\* exactly one snapshot more per firing than the startup pass gave it.
C11_EveryFiringAddsOnePerSource ==
    (\A h \in HourlyTasks : task[h].pc \in {"idle", "done"}) =>
        \A id \in ExchangeIds :
            Len(getSnapshots(snapshotStore, id)) =
                Cardinality(OkVisits(StartupTask, id)) + Firings

\* What holds in every state for C11, amended.
HourlyPassesFollowFirings ==
    /\ Cardinality(StartedHourly) = Firings
    /\ timer.armed => timer.first % HourMs = 0 /\ timer.due % HourMs = 0
    /\ \A h \in StartedHourly :
          /\ timer.repeating
          /\ \A i \in 1..Len(task[h].passed) : task[h].passed[i].at >= timer.first
    /\ \A t \in PassTasks : VisitsInOrder(t)
    /\ \A id \in ExchangeIds :
          LET h == getSnapshots(snapshotStore, id)
          IN  /\ Len(h) = Cardinality({t \in PassTasks : OkVisits(t, id) # {}})
              /\ \A i, j \in 1..Len(h) : i < j => h[i].timestamp <= h[j].timestamp

\* What holds of every step for C11, amended: the store changes only when a
\* pass is through with a source, and then by one snapshot of that source,
\* stamped now and put after the ones its history held.
SnapshotsOnlyByPasses ==
    snapshotStore' # snapshotStore =>
        \E t \in PassTasks :
            /\ running = t
            /\ task[t].pc = "ret"
            /\ LET id == SourceOf(task[t])
                   old == getSnapshots(snapshotStore, id)
                   new == getSnapshots(snapshotStore', id)
               IN  /\ Len(new) >= 1
                   /\ new[Len(new)].timestamp = now
                   /\ Len(old) < MAX_SNAPSHOTS => new = Append(old, new[Len(new)])
                   /\ \A other \in ExchangeIds \ {id} :
                         getSnapshots(snapshotStore', other) = getSnapshots(snapshotStore, other)

\* C11, amended: the timer fires on hour boundaries only and every firing
\* starts exactly one pass; a pass visits the sources in order, each once, and
\* gives a source one snapshot, appended after the ones already in its history,
\* exactly when the source's fetcher gave it a result with records, and none
\* otherwise; nothing but a pass adds a snapshot, so between the end of a pass
\* and the next boundary no history changes.
C11_FiringAddsAtMostOnePerSource ==
    []HourlyPassesFollowFirings /\ [][SnapshotsOnlyByPasses]_vars

\* The pass of the first firing is over and all four sources have their
\* second snapshot, taken at or after the boundary.
C11_Witness ==
    /\ task["hourly1"].pc = "done"
    /\ \A id \in ExchangeIds :
          /\ Len(getSnapshots(snapshotStore, id)) = 2
          /\ snapshotStore[id][2].timestamp >= timer.first
          /\ snapshotStore[id][1].timestamp < timer.first

\* The caches and the auxiliary variable a fetcher of source id writes.
OwnCaches(id) ==
    {TickerCacheOf(id)} \cup (IF id = "bitget-spot" THEN {} ELSE {AuxCacheOf(id)})
OwnAuxVars(id) == IF id = "bitget-spot" THEN {} ELSE {AuxVarOf(id)}

\* What holds in every state for C12: a pass that is over went through all
\* the sources of EXCHANGE_FETCHERS, in order, whatever their fetchers did.
PassesVisitEverySource ==
    \A t \in PassTasks :
        /\ VisitsInOrder(t)
        /\ task[t].pc \in {"schedule", "done"} =>
              Len(task[t].passed) = Len(EXCHANGE_FETCHERS)
        /\ task[t].pc \notin {"idle", "schedule", "done"} =>
              task[t].idx = Len(task[t].passed) + 1

\* What holds of every step of a pass for C12.
FailureStaysAtItsSource ==
    \A t \in PassTasks :
        (task'[t] # task[t] /\ task[t].idx >= 1) =>
            LET id == SourceOf(task[t])
            IN  \* a step of the fetcher of id writes the caches of id only
                /\ \A c \in DOMAIN cache : cache'[c] # cache[c] => c \in OwnCaches(id)
                /\ \A a \in DOMAIN auxVal : auxVal'[a] # auxVal[a] => a \in OwnAuxVars(id)
                /\ \A other \in ExchangeIds \ {id} :
                      getSnapshots(snapshotStore', other) = getSnapshots(snapshotStore, other)
                \* the fetcher throws: the result cached for id stays as it was
                /\ (task[t].pc # "ret" /\ task'[t].pc = "ret" /\ IsError(task'[t].ret)) =>
                      cache'[TickerCacheOf(id)] = cache[TickerCacheOf(id)]
                \* the pass catches: nothing is stored, and the next source follows
                /\ (task[t].pc = "ret" /\ IsError(task[t].ret)) =>
                      /\ snapshotStore' = snapshotStore
                      /\ cache' = cache
                      /\ auxVal' = auxVal
                      /\ Len(task'[t].passed) = Len(task[t].passed) + 1
                      /\ ~task'[t].passed[Len(task'[t].passed)].ok
                      /\ IF task[t].idx < Len(EXCHANGE_FETCHERS)
                         THEN task'[t].pc = "call" /\ task'[t].idx = task[t].idx + 1
                         ELSE task'[t].pc \in {"schedule", "done"}

\* C12: a fetcher's failure is caught where the pass awaits that fetcher: the
\* pass goes on to the next source of EXCHANGE_FETCHERS and ends only after
\* the last one, it never fails itself, and the failure changes neither the
\* failing source's history or cached result nor any other source's caches
\* or history.
C12_FailureDoesNotAbortPass ==
    []PassesVisitEverySource /\ [][FailureStaysAtItsSource]_vars

\* The startup pass is over: the second source's fetcher failed, the two
\* sources after it were visited and have their snapshots, the second has none.
C12_Witness ==
    /\ task[StartupTask].pc = "done"
    /\ Len(task[StartupTask].passed) = Len(EXCHANGE_FETCHERS)
    /\ ~task[StartupTask].passed[2].ok
    /\ task[StartupTask].passed[3].ok
    /\ task[StartupTask].passed[4].ok
    /\ "bitget-spot" \notin DOMAIN snapshotStore
    /\ "upbit-spot" \in DOMAIN snapshotStore
    /\ "binance-alpha" \in DOMAIN snapshotStore

(***************************************************************************)
(* Properties of the auxiliary fetches (Spec).                             *)
(***************************************************************************)
\* Task t's auxiliary request fails for good in this step (fetchWithRetry
\* throws into the catch of the auxiliary fetcher).
AuxFetchFails(t) ==
    /\ task[t].pc = "request"
    /\ task[t].call = "aux"
    /\ task'[t] # task[t]
    /\ faults' > faults
    /\ task'[t].pc # "backoff"

\* The fetcher goes on to its ticker request (through the 500 ms spacing
\* where it has one), holding the auxiliary value `value`.
GoesOnToTickers(t, value) ==
    /\ \/ task'[t].pc = "delay"
       \/ task'[t].pc = "request" /\ task'[t].call = "ticker"
    /\ task'[t].local = value

\* C13 as stated: when its auxiliary fetch fails, a fetcher goes on to its
\* ticker fetch, with the last auxiliary value if there is one and without
\* filtering otherwise; it does not end there.
C13_AuxFailureNeverFailsRefresh ==
    [][\A t \in FetcherTasks :
          AuxFetchFails(t) =>
              LET id == SourceOf(task[t])
              IN  IF auxVal[AuxVarOf(id)] # Null
                  THEN GoesOnToTickers(t, auxVal[AuxVarOf(id)])
                  ELSE \E value \in {Null, [list |-> <<>>]} : GoesOnToTickers(t, value)]_vars

(***************************************************************************)
(* Properties of the fetch results (SpecRank).                             *)
(***************************************************************************)
\* The result the cache of source id holds.
Stored(id) == cache[TickerCacheOf(id)].data

\* C14: in the result a fetcher stores and returns, no symbol occurs twice,
\* for each of the four sources and every ticker list the exchange sends
\* (one ticker per symbol or market; the Alpha token list may repeat a symbol).
C14_SymbolsUnique ==
    \A id \in ExchangeIds :
        Stored(id) # Null =>
            \A i, j \in 1..Len(Stored(id).data) :
                i # j => Stored(id).data[i].symbol # Stored(id).data[j].symbol

\* The Alpha result was just made of a token list that repeats a symbol and
\* has two records, and the Upbit result holds records of a batch with a
\* KRW-USDT ticker.
C14_Witness ==
    /\ Len(log) = 1
    /\ log[1].ev = "rank"
    /\ log[1].id = "binance-alpha"
    /\ log[1].local.list = AlphaRepeated
    /\ Len(Stored("binance-alpha").data) >= 2
    /\ Stored("upbit-spot") # Null
    /\ Len(Stored("upbit-spot").data) = 2

\* C15: in every result that carries a total, the total is at least the
\* number of records of the result, for each of the four sources and every
\* ticker list the exchange sends.
C15_TotalAtLeastRecords ==
    \A id \in ExchangeIds :
        Stored(id) # Null => Stored(id).total >= Len(Stored(id).data)

\* The KRW price of one USDT a batch is to be converted at: the trade price of
\* its KRW-USDT ticker if it has one with a price, else 1450.
KrwPerUsd(tickers) ==
    LET usable == {i \in 1..Len(tickers) :
                      tickers[i].market = KRW_USDT /\ tickers[i].trade_price > 0}
    IN  IF usable # {} THEN tickers[CHOOSE i \in usable : TRUE].trade_price
        ELSE FallbackKrwPerUsd

\* Record r is ticker t converted at p KRW per USDT: r.quoteVolume = V / p and
\* r.lastPrice = price / p, as exact fractions.
ConvertedAt(r, t, p) ==
    /\ t.market.quote = "KRW"
    /\ r.symbol = Sym(t.market.base, "USDT")
    /\ r.quoteVolume.n * p = t.acc_trade_price_24h * r.quoteVolume.d
    /\ r.lastPrice.n * p = t.trade_price * r.lastPrice.d

\* C16: the records the Upbit fetcher makes of a batch are the batch's tickers
\* other than KRW-USDT (the first 100 by volume), each with quoteVolume and
\* lastPrice equal to the ticker's KRW amounts divided by P, where P is the
\* trade price of the batch's KRW-USDT ticker, or 1450 when the batch has no
\* KRW-USDT ticker with a price; no record is the KRW-USDT ticker's.
C16_UpbitConversion ==
    (Len(log) = 1 /\ log[1].ev = "rank" /\ log[1].id = "upbit-spot") =>
        LET tickers == log[1].tickers
            recs == Stored("upbit-spot").data
            others == {i \in 1..Len(tickers) : tickers[i].market # KRW_USDT}
        IN  /\ Len(recs) = IF Cardinality(others) > TopN THEN TopN ELSE Cardinality(others)
            /\ \A k \in 1..Len(recs) :
                  /\ recs[k].symbol # Sym("USDT", "USDT")
                  /\ \E i \in others : ConvertedAt(recs[k], tickers[i], KrwPerUsd(tickers))

\* The Upbit result was just made of a batch with a KRW-USDT ticker at 1500:
\* two records, the first with 6000 KRW of volume, that is 4 USDT.
C16_Witness ==
    /\ Len(log) = 1
    /\ log[1].ev = "rank"
    /\ log[1].id = "upbit-spot"
    /\ log[1].tickers = UpbitShort
    /\ Len(Stored("upbit-spot").data) = 2
    /\ NumEq(Stored("upbit-spot").data[1].quoteVolume, Num(4))
    /\ NumEq(Stored("upbit-spot").data[2].quoteVolume, Num(2))

(***************************************************************************)
(* Properties of the query handlers (Spec).                                *)
(***************************************************************************)
\* C17: a response is either the error response (status 500, an error, no
\* data list) or a normal one (status 200, a data list, no error); the error
\* response is sent exactly when the fetcher failed with no result cached for
\* the source, and the data list and timestamp of a normal response are those
\* of the completed result the source's cache holds.
C17_ErrorResponseDistinct ==
    \A q \in QueryTasks :
        task[q].pc = "sent" =>
            LET r == task[q].ret
                c == cache[TickerCacheOf(r.id)]
            IN  /\ r.id = SourceOf(task[q])
                /\ r.status \in {200, 500}
                /\ r.status = 500 =>
                      /\ "error" \in DOMAIN r
                      /\ "data" \notin DOMAIN r
                      /\ get(c) = Null
                /\ r.status = 200 =>
                      /\ "data" \in DOMAIN r
                      /\ "error" \notin DOMAIN r
                      /\ get(c) # Null
                      /\ r.data = get(c).data
                      /\ r.timestamp = get(c).timestamp
                      /\ r.timestamp <= now

\* A query whose upstream request failed while nothing was cached for its
\* source has been answered with the error response.
C17_Witness ==
    \E q \in QueryTasks :
        /\ task[q].pc = "sent"
        /\ task[q].requests > 0
        /\ faults > 0
        /\ task[q].ret.status = 500
        /\ "data" \notin DOMAIN task[q].ret
        /\ get(cache[TickerCacheOf(SourceOf(task[q]))]) = Null

(***************************************************************************)
(* Properties of the dashboard (SpecDashboard).                            *)
(***************************************************************************)
\* What holds in every state for C18: a tab that received data once has data,
\* and while it is the active tab the table is shown and the error view is
\* not; the error view is shown only with an error recorded for the active
\* tab that never received data.
DataKeepsTableShown ==
    /\ \A tabId \in TabIds : ui.received[tabId] <=> ui.dataMap[tabId] # Null
    /\ ui.received[ui.activeTab] => TableView /\ ~ErrorView /\ ~LoadingView
    /\ ErrorView => ui.errorMap[ui.activeTab] # Null /\ ~ui.received[ui.activeTab]

\* What holds of every step for C18: a fetch that fails records its error and
\* leaves the data of every tab as it is, and no step takes a tab's data away.
FailedFetchKeepsData ==
    /\ \A tabId \in TabIds :
          ui.dataMap[tabId] # Null => ui'.dataMap[tabId] # Null
    /\ \A f \in Fetches :
          (ui.fetch[f].pc = "fetch" /\ ui'.fetch[f].pc = "finally") =>
              /\ ui'.errorMap[ui.fetch[f].tabId] # Null
              /\ ui'.dataMap = ui.dataMap
              /\ ui'.lastUpdateMap = ui.lastUpdateMap

\* C18: once a tab has received data, a failed fetch for it leaves its data in
\* place and the table stays displayed whenever the tab is active; the error
\* view is shown only while an error is recorded for the active tab and that
\* tab has never received data.
C18_LastKnownGoodStaysDisplayed ==
    []DataKeepsTableShown /\ [][FailedFetchKeepsData]_vars

\* The active tab received data, a later fetch for it failed and is over: the
\* error is recorded, and the table is shown, not the error view.
C18_Witness ==
    /\ ui.received[ui.activeTab]
    /\ ui.errorMap[ui.activeTab] # Null
    /\ ~ui.loadingMap[ui.activeTab]
    /\ ui.lastUpdateMap[ui.activeTab] # Null
    /\ \A f \in Fetches : ui.fetch[f].pc = "none"
    /\ TableView
    /\ ~ErrorView

(***************************************************************************)
(* Properties of the health endpoint (Spec).                               *)
(***************************************************************************)
\* What the health response is to tell of source id: whether a result is
\* held for it, how many snapshots its history has, and when the result was
\* stored.
SourceHealth(id) ==
    [hasData |-> get(cache[TickerCacheOf(id)]) # Null,
     snapshots |-> Len(getSnapshots(snapshotStore, id)),
     lastUpdate |-> cache[TickerCacheOf(id)].lastFetchTime]

\* C19 as stated: the health response reports the uptime and, for each
\* source, whether data is present, its snapshot count and its last-update
\* time: the uptime in it is the time since process start, and whenever one
\* of these facts changes for a source the response is another one.
C19_HealthReportsSources ==
    /\ [](HealthResponse.uptime.n = now - startedAt)
    /\ [][(\E id \in ExchangeIds : SourceHealth(id)' # SourceHealth(id)) =>
              HealthResponse' # HealthResponse]_vars

(***************************************************************************)
(* Properties of the order within a pass (Spec).                           *)
(***************************************************************************)
\* The order the claim names.
FixedOrder == <<"binance-futures", "bitget-spot", "upbit-spot", "binance-alpha">>

\* What holds in every state for C20: the sources a pass is through with are
\* the first ones of the fixed order; the pass is at one source at a time,
\* the one after those; each source was begun when the one before it was
\* done, and a source done with records has its snapshot of that moment.
OneSourceAtATime ==
    \A t \in PassTasks :
        LET passed == task[t].passed
        IN  /\ Len(passed) <= Len(FixedOrder)
            /\ \A i \in 1..Len(passed) :
                  /\ passed[i].id = FixedOrder[i]
                  /\ passed[i].at <= passed[i].end
                  /\ i > 1 => passed[i - 1].end <= passed[i].at
                  /\ passed[i].ok =>
                        \E k \in 1..Len(getSnapshots(snapshotStore, passed[i].id)) :
                            snapshotStore[passed[i].id][k].timestamp = passed[i].end
            /\ task[t].pc \notin {"idle", "schedule", "done"} =>
                  /\ task[t].idx = Len(passed) + 1
                  /\ SourceOf(task[t]) = FixedOrder[Len(passed) + 1]
            /\ (task[t].pc \notin {"idle", "call", "schedule", "done"} /\ Len(passed) > 0) =>
                  passed[Len(passed)].end <= task[t].at

\* What holds of every step for C20: a pass moves from a source to the next
\* one only, and only in the step that ends the source's refresh, which is
\* the step that takes its snapshot or catches its failure.
NextSourceAfterThisOne ==
    \A t \in PassTasks :
        (task[t].idx >= 1 /\ task'[t].idx >= 1 /\ task'[t].idx # task[t].idx) =>
            LET id == SourceOf(task[t])
            IN  /\ task[t].pc = "ret"
                /\ task'[t].pc = "call"
                /\ task'[t].idx = task[t].idx + 1
                /\ Len(task'[t].passed) = task[t].idx
                /\ IF HasRecords(task[t].ret)
                   THEN Len(getSnapshots(snapshotStore', id)) =
                            Len(getSnapshots(snapshotStore, id)) + 1
                   ELSE snapshotStore' = snapshotStore

\* C20: a pass visits the four sources in the order binance-futures,
\* bitget-spot, upbit-spot, binance-alpha; it begins a source's refresh only
\* after the refresh of the source before it has ended and its snapshot is
\* taken or its failure caught, so it never refreshes two sources at once.
C20_FixedOrderOneAtATime ==
    []OneSourceAtATime /\ [][NextSourceAfterThisOne]_vars

\* The startup pass is over: it got records from all four sources, each begun
\* when the one before it was done, the second later than the first.
C20_Witness ==
    /\ task[StartupTask].pc = "done"
    /\ Len(task[StartupTask].passed) = Len(FixedOrder)
    /\ \A i \in 1..Len(FixedOrder) : task[StartupTask].passed[i].ok
    /\ task[StartupTask].passed[1].at < task[StartupTask].passed[2].at
    /\ task[StartupTask].passed[1].end <= task[StartupTask].passed[2].at
    /\ \A id \in ExchangeIds : Len(getSnapshots(snapshotStore, id)) >= 1

\* C21 as stated: within a pass, time passes between the end of one source's
\* refresh and the beginning of the next source's (a fixed delay of about a
\* second, so a positive one at the least).
C21_DelayBetweenSources ==
    \A t \in PassTasks :
        \A i \in 2..Len(task[t].passed) :
            task[t].passed[i].at > task[t].passed[i - 1].end

(***************************************************************************)
(* Properties of concurrent refreshes (Spec).                              *)
(***************************************************************************)
\* The fetcher calls for source id that are under way: called, not returned.
InFlight(id) ==
    {t \in FetcherTasks :
        /\ task[t].pc \in {"request", "backoff", "delay"}
        /\ SourceOf(task[t]) = id}

\* C22 as stated: no source has two refreshes under way at once, and a
\* source's cache is written only when the result it holds is missing or
\* stale, so that no two refreshes write it for the same stale result.
C22_OneRefreshPerSource ==
    /\ [](\A id \in ExchangeIds : Cardinality(InFlight(id)) <= 1)
    /\ [][\A id \in ExchangeIds :
             cache'[TickerCacheOf(id)] # cache[TickerCacheOf(id)] =>
                 ~isValid(cache[TickerCacheOf(id)], now)]_vars

\* What holds in every state for C23: a pass whose fetcher has returned holds
\* the event loop until it has recorded the result, and no response that has
\* been sent carries the result such a pass is about to record.
PassHoldsLoopUntilRecorded ==
    \A t \in PassTasks :
        task[t].pc = "ret" =>
            /\ running = t
            /\ \A q \in QueryTasks :
                  (task[q].pc = "sent" /\ task[q].ret.status = 200
                      /\ task[q].ret.id = SourceOf(task[t])) =>
                  (IsError(task[t].ret) \/ task[q].ret.timestamp # task[t].ret.timestamp)

\* What holds of every step for C23: a pass that stores a result in a cache
\* is, after that step, the one to go on, with that result in hand; its next
\* step is the only thing that happens then, at the same instant, and it
\* appends the snapshot made of that result.
RecordedRightAfterStored ==
    \A t \in PassTasks :
        /\ \A id \in ExchangeIds :
              (task'[t] # task[t] /\ cache'[TickerCacheOf(id)] # cache[TickerCacheOf(id)]) =>
                  /\ id = SourceOf(task[t])
                  /\ task'[t].pc = "ret"
                  /\ task'[t].ret = get(cache'[TickerCacheOf(id)])
                  /\ running' = t
        /\ task[t].pc = "ret" =>
              /\ \A u \in Tasks \ {t} : task'[u] = task[u]
              /\ now' = now
              /\ cache' = cache
              /\ HasRecords(task[t].ret) =>
                    LET h == getSnapshots(snapshotStore', SourceOf(task[t]))
                    IN  /\ Len(h) = Len(getSnapshots(snapshotStore, SourceOf(task[t]))) + 1
                        /\ h[Len(h)].rankings = Rankings(task[t].ret.data)
                        /\ h[Len(h)].timestamp = now

\* C23: between a pass's replacement of a source's cached result and the
\* append of the snapshot made of it, nothing else runs: no query is accepted,
\* calls its fetcher or sends a response, so no response shows the new result
\* with a history that lacks its snapshot.
C23_StoredAndRecordedTogether ==
    []PassHoldsLoopUntilRecorded /\ [][RecordedRightAfterStored]_vars

\* A pass has just stored a new result with records for a source, and has not
\* yet recorded it, while a query for the same source awaits its own upstream
\* request.
C23_Witness ==
    \E t \in PassTasks, q \in QueryTasks :
        /\ task[t].pc = "ret"
        /\ task[t].requests > 0
        /\ HasRecords(task[t].ret)
        /\ task[t].ret = get(cache[TickerCacheOf(SourceOf(task[t]))])
        /\ task[t].ret.timestamp = now
        /\ task[q].pc = "request"
        /\ SourceOf(task[q]) = SourceOf(task[t])

(***************************************************************************)
(* Properties of one takeSnapshot call (SpecStore).                        *)
(***************************************************************************)
\* What the call a step made (log' names it and its argument) appended, when
\* its argument has records: one snapshot, last in the history of the call's
\* exchange id, whose rankings have exactly the records' symbols, each with
\* the record's position (from 1) and its quoteVolume; every other history
\* and every cache are as before.
AppendsRankedSnapshot ==
    LET call == log'[1]
        list == call.data.data
        old == getSnapshots(snapshotStore, call.id)
        new == getSnapshots(snapshotStore', call.id)
        snap == new[Len(new)]
    IN  call.records > 0 =>
            /\ Len(new) = IF Len(old) < MAX_SNAPSHOTS THEN Len(old) + 1 ELSE MAX_SNAPSHOTS
            /\ \A i \in 1..(Len(new) - 1) : new[i] = old[i + Len(old) + 1 - Len(new)]
            /\ snap.timestamp = call.at
            /\ DOMAIN snap.rankings = {list[i].symbol : i \in 1..Len(list)}
            /\ \A i \in 1..Len(list) :
                  snap.rankings[list[i].symbol] =
                      [rank |-> i, volume |-> list[i].quoteVolume]
            /\ \A id \in ExchangeIds \ {call.id} :
                  getSnapshots(snapshotStore', id) = getSnapshots(snapshotStore, id)
            /\ DOMAIN snapshotStore' = DOMAIN snapshotStore \cup {call.id}
            /\ cache' = cache
            /\ auxVal' = auxVal

\* C24: takeSnapshot(exchangeId, result) with a non-empty record list appends
\* one snapshot whose rankings map each record's symbol to the record's
\* 1-based position in result.data and to its quoteVolume, and changes no
\* other exchange's history and no cache.
C24_AppendsOneRankedSnapshot == [][AppendsRankedSnapshot]_vars

\* A call with records for one exchange has just been made while another
\* exchange has a history, which the call left as it was; the snapshot is the
\* last of its history and ranks the first record 1.
C24_Witness ==
    /\ Len(log) = 1
    /\ log[1].records > 1
    /\ \E other \in ExchangeIds \ {log[1].id} :
          Len(getSnapshots(snapshotStore, other)) > 0
    /\ LET h == getSnapshots(snapshotStore, log[1].id)
       IN  /\ h[Len(h)].timestamp = log[1].at
           /\ h[Len(h)].rankings[log[1].data.data[1].symbol].rank = 1
           /\ h[Len(h)].rankings[log[1].data.data[2].symbol].rank = 2

(***************************************************************************)
(* Properties of what a pass records (Spec).                               *)
(***************************************************************************)
\* What a pass whose fetcher has returned has in hand: the result the
\* source's cache holds, which has records, be it one the call made, one it
\* found valid or an older one it fell back to; a failure only if the cache
\* holds nothing.
PassHoldsCachedResult ==
    \A t \in PassTasks :
        task[t].pc = "ret" =>
            LET held == get(cache[TickerCacheOf(SourceOf(task[t]))])
            IN  IF held = Null THEN IsError(task[t].ret)
                ELSE task[t].ret = held /\ HasRecords(held)

\* What a step does to the histories: it changes one only as the step of a
\* pass whose fetcher has returned, for that pass's source, by putting last a
\* snapshot with the rankings of the result the cache holds in that step; and
\* such a pass, when the cache holds a result, does so.
RecordsTheCachedResult ==
    /\ snapshotStore' # snapshotStore =>
          \E t \in PassTasks :
              LET id == SourceOf(task[t])
                  held == get(cache[TickerCacheOf(id)])
                  new == getSnapshots(snapshotStore', id)
              IN  /\ task[t].pc = "ret" /\ running = t
                  /\ cache' = cache
                  /\ held # Null
                  /\ new[Len(new)].rankings = Rankings(held.data)
                  /\ new[Len(new)].timestamp = now
                  /\ \A other \in ExchangeIds \ {id} :
                        getSnapshots(snapshotStore', other) = getSnapshots(snapshotStore, other)
    /\ \A t \in PassTasks :
          (task[t].pc = "ret" /\ task'[t] # task[t]
              /\ get(cache[TickerCacheOf(SourceOf(task[t]))]) # Null) =>
              LET old == getSnapshots(snapshotStore, SourceOf(task[t]))
                  new == getSnapshots(snapshotStore', SourceOf(task[t]))
              IN  /\ Len(new) > 0
                  /\ new[Len(new)].timestamp = now
                  /\ Len(new) = IF Len(old) < MAX_SNAPSHOTS THEN Len(old) + 1 ELSE MAX_SNAPSHOTS

C25_FoundValid ==
    \E id \in ExchangeIds :
        LET h == getSnapshots(snapshotStore, id)
            held == get(cache[TickerCacheOf(id)])
        IN  /\ Len(h) >= 1
            /\ held # Null
            /\ h[Len(h)].timestamp = now
            /\ held.timestamp < now
            /\ now < held.timestamp + 60000

(***************************************************************************)
(* Properties of a failed refresh (Spec).                                  *)
(***************************************************************************)
\* A step changes a source's cache entry only by storing a result made at
\* that instant, with that instant as its stored time: a call that returns
\* an older result, or fails, leaves the entry's data and stored time alone.
OnlySuccessStores ==
    \A id \in ExchangeIds :
        LET c == TickerCacheOf(id)
        IN  /\ cache'[c] # cache[c] =>
                  /\ cache'[c].data # Null
                  /\ cache'[c].data.timestamp = now
                  /\ cache'[c].lastFetchTime = now
            /\ \A t \in FetcherTasks :
                  (task'[t].pc = "ret" /\ task[t].pc # "ret" /\ SourceOf(task[t]) = id
                      /\ (IsError(task'[t].ret) \/ task'[t].ret.timestamp < now)) =>
                      cache'[c] = cache[c]

\* A call that found a stale entry in its source's cache has sent an upstream
\* request by the time it returns.
StaleAccessFetches ==
    \A t \in FetcherTasks :
        (task[t].pc = "ret" /\ task[t].seen.data # Null /\ ~WasFresh(task[t])) =>
            task[t].requests > 0

\* C26 as stated: a failed refresh leaves the source's cache entry as it was,
\* data and stored time, so the validity window is not renewed, and while the
\* entry is stale every later access attempts the upstream fetch again.
C26_FailedRefreshKeepsEntry ==
    [][OnlySuccessStores]_vars /\ []StaleAccessFetches

(***************************************************************************)
(* Properties of the passes over two hours (SpecHours).                    *)
(***************************************************************************)
\* The passes that are iterating the sources.
InProgress ==
    {t \in PassTasks : task[t].pc \in {"call", "request", "backoff", "delay", "ret"}}

\* A step that starts a pass finds no pass iterating.
BeginsAlone ==
    \A t \in PassTasks :
        (task[t].pc = "idle" /\ task'[t].pc # "idle") => InProgress = {}

\* C27: at most one refresh pass is in progress at any time; a pass the
\* hourly timer starts never begins while the startup pass or an earlier
\* hourly pass is still iterating the sources.
C27_OnePassAtATime ==
    [](Cardinality(InProgress) <= 1) /\ [][BeginsAlone]_vars

\* The second hourly pass is under way, an hour after the first, which went
\* through all the sources, as did the startup pass before the timer was
\* armed.
C27_Witness ==
    /\ task["hourly2"].pc = "request"
    /\ task["hourly2"].at = timer.first + HourMs
    /\ task["hourly1"].pc = "done"
    /\ Len(task["hourly1"].passed) = Len(EXCHANGE_FETCHERS)
    /\ task["hourly1"].passed[1].at = timer.first
    /\ task[StartupTask].pc = "done"
    /\ task[StartupTask].passed[Len(EXCHANGE_FETCHERS)].end <= timer.first

(***************************************************************************)
(* Properties of calls without records (SpecStore).                        *)
(***************************************************************************)
\* Every snapshot of every history ranks at least one symbol.
NoEmptySnapshot ==
    \A id \in DOMAIN snapshotStore :
        \A i \in 1..Len(snapshotStore[id]) :
            DOMAIN snapshotStore[id][i].rankings # {}

\* The call a step made (log' names it and its argument), when its argument
\* is missing or has no records, left the store as it was: the same exchange
\* ids with the same histories.
NoRecordsNoOp ==
    (log'[1].data = Null \/ Len(log'[1].data.data) = 0) =>
        /\ DOMAIN snapshotStore' = DOMAIN snapshotStore
        /\ snapshotStore' = snapshotStore

\* C28: every snapshot stored in any history has at least one ranking;
\* takeSnapshot called with a missing result or an empty record list appends
\* nothing, creates no history entry for that exchange and leaves every
\* existing history unchanged.
C28_NoRecordsNoSnapshot == []NoEmptySnapshot /\ [][NoRecordsNoOp]_vars

\* takeSnapshot has just been called with an empty record list for an
\* exchange that has no history entry, and still has none, while another
\* exchange has a history.
C28_Witness ==
    /\ Len(log) = 1
    /\ log[1].data # Null
    /\ Len(log[1].data.data) = 0
    /\ log[1].id \notin DOMAIN snapshotStore
    /\ \E other \in DOMAIN snapshotStore : Len(snapshotStore[other]) > 1

(***************************************************************************)
(* Properties of the end of a fetchWithRetry call (SpecRetryFair).         *)
(***************************************************************************)
\* What holds in every state of a call: it has sent at most 3 requests, as
\* many as the log has; a request that succeeded is the last thing in the
\* log, and the call has ended by returning a response of the endpoint; a
\* call that has ended has sent at least one request.
EndsAtFirstSuccess ==
    /\ task[Probe].requests = Cardinality(RequestIndices)
    /\ task[Probe].requests <= MaxRetries
    /\ \A i \in LogIndices :
          log[i].ev = "ok" =>
              /\ i = Len(log)
              /\ log[i - 1].ev = "request" /\ log[i - 1].attempt = log[i].attempt
              /\ \A j \in LogIndices : j < i => log[j].ev # "ok"
              /\ task[Probe].pc = "done"
              /\ task[Probe].ret.kind = "return"
              /\ task[Probe].ret.value \in Replies(UrlOf(Probe))
    /\ task[Probe].pc = "done" => task[Probe].requests >= 1

\* A call that has ended stays as it is: no further request, wait or result.
EndedForGood ==
    task[Probe].pc = "done" => task'[Probe] = task[Probe] /\ log' = log

\* C29: every call of fetchWithRetry with maxRetries = 3 ends, having sent at
\* least 1 and at most 3 requests; it returns the response of the first
\* request that succeeded and sends no request after a success.
C29_TerminatesWithinThreeRequests ==
    /\ []EndsAtFirstSuccess
    /\ [][EndedForGood]_vars
    /\ <>(task[Probe].pc = "done")

\* A call has returned the response of its third request, after two transient
\* failures.
C29_Witness ==
    /\ task[Probe].pc = "done"
    /\ task[Probe].ret.kind = "return"
    /\ task[Probe].requests = 3
    /\ log[Len(log)].ev = "ok" /\ log[Len(log)].attempt = 2
    /\ Cardinality(FailureIndices) = 2

(***************************************************************************)
(* Properties of the delay to the first hourly pass (SpecSchedule).        *)
(***************************************************************************)
\* What the step that sets the timer computes: a delay of more than 0 and at
\* most 3,600,000 ms, which ends on the first whole hour after the instant of
\* the call, a full hour away when the call is itself on a whole hour.
DelayToNextHour ==
    (timer'.armed /\ ~timer.armed) =>
        LET delay == timer'.due - now
        IN  /\ delay > 0
            /\ delay <= 3600000
            /\ timer'.due % HourMs = 0
            /\ timer'.due = ((now \div HourMs) + 1) * HourMs
            /\ now % HourMs = 0 => delay = 3600000
            /\ timer'.first = timer'.due

\* C30: at whatever minute, second and millisecond scheduleHourlySnapshots
\* runs, the delay to the first hourly pass is more than 0 and at most
\* 3,600,000 ms and ends exactly on the next instant with minute, second and
\* millisecond 0; called exactly on the hour, it is a full hour, not 0.
C30_DelayEndsOnNextHour == [][DelayToNextHour]_vars

\* scheduleHourlySnapshots has just run exactly on the hour: the timer is set
\* for a full hour later.
C30_Witness ==
    /\ timer.armed
    /\ task[StartupTask].pc = "done"
    /\ now % HourMs = 0
    /\ timer.due = now + HourMs

\* scheduleHourlySnapshots has just run one millisecond before the hour.
C30_LastMillisecond ==
    /\ timer.armed
    /\ now % HourMs = HourMs - 1
    /\ timer.due = now + 1

====
